---------------------------- MODULE Spec2Model ----------------------------
(***************************************************************************)
(* A model of the combat core of the_brass: ShipTemplate, Ship,            *)
(* ReducedShip (a representative Ship plus a count), the ReducedAttacks    *)
(* pool, and the Fleet / ShipGroup / RepeatedShip types of fleets.rs.      *)
(*                                                                         *)
(* Rust tuples are 0-indexed, TLA+ tuples 1-indexed: simulation.0 is       *)
(* simulation[1] (hull), simulation.1 is simulation[2] (shield) and        *)
(* simulation.2 is simulation[3] (left over damage).                       *)
(***************************************************************************)
EXTENDS Integers, Sequences, FiniteSets, TLC

VARIABLES
    ship,     \* a Ship (ship.rs)
    group,    \* a ReducedShip (reduced_ship.rs)
    pool,     \* a ReducedAttacks: the Vec<TargetedAttack> (attacks.rs)
    fleet,    \* a Fleet: the Vec<ShipGroup>, each a Vec<RepeatedShip> (fleets.rs)
    repeated, \* a RepeatedShip (fleets.rs)
    buf,      \* a TemplateBuf (ship_template.rs)
    ship_template, \* a ShipTemplate (ship_template.rs)
    last      \* the last call made: its name, its arguments, the state before
              \* it (pre) and what it returned or left in its arguments

vars == <<ship, group, pool, fleet, repeated, buf, ship_template, last>>

(***************************************************************************)
(* Bounds of the model.                                                    *)
(***************************************************************************)
MaxHull == 3
MaxShield == 2
MaxCount == 3
MaxDamage == 16

(***************************************************************************)
(* game/mod.rs: UInt = u32, UINT_MAX = u32::MAX.  TLC's integers are       *)
(* 32-bit signed and cannot hold u32::MAX, so the model's UInt is the      *)
(* range 0..UIntMax: a narrower unsigned integer with the same wrapping.   *)
(***************************************************************************)
UIntMax == 65535

\* `x as UInt`: x reduced to the width of UInt.
AsUInt(x) == x % (UIntMax + 1)

Min(a, b) == IF a < b THEN a ELSE b

(***************************************************************************)
(* ShipTemplate (ship_template.rs).                                        *)
(***************************************************************************)
\* ShipTemplate::new: the checks, then from_parts.
ShipTemplate_new(ship_size_class, fuel_capacity, fuel_use, hull_points, shield_points, shield_recovery, cargo_capacity, smallest_target, attack_damage) ==
    IF fuel_use > fuel_capacity THEN [ok |-> FALSE, err |-> "FuelError"]
    ELSE IF shield_recovery > shield_points THEN [ok |-> FALSE, err |-> "ShieldError"]
    ELSE [ok |-> TRUE,
          val |-> [ship_size_class |-> ship_size_class,
                   fuel_capacity |-> fuel_capacity,
                   fuel_use |-> fuel_use,
                   max_hull |-> hull_points,
                   shield_capacity |-> shield_points,
                   shield_recovery |-> shield_recovery,
                   cargo_capacity |-> cargo_capacity,
                   smallest_target |-> smallest_target,
                   attack_damage |-> attack_damage]]

\* The templates the model draws from: what ShipTemplate::new builds for size
\* class 1 with the largest hull and shield figures of the model, recovering
\* no or one shield point a period.
Templates ==
    { ShipTemplate_new(1, 1, 0, MaxHull, MaxShield, sr, 0, 1, 1).val :
        sr \in { q \in 0..1 :
                    ShipTemplate_new(1, 1, 0, MaxHull, MaxShield, q, 0, 1, 1).ok } }

(***************************************************************************)
(* Ship (ship.rs).                                                         *)
(***************************************************************************)
\* Ship::from_parts
Ship_from_parts(template, fuel_units, hull_points, shield_points) ==
    [template |-> template, fuel_units |-> fuel_units,
     hull_points |-> hull_points, shield_points |-> shield_points]

\* Ship::new
Ship_new(template, fuel_units, hull_points, shield_points) ==
    IF fuel_units > template.fuel_capacity THEN [ok |-> FALSE, err |-> "FuelError"]
    ELSE IF hull_points > template.max_hull THEN [ok |-> FALSE, err |-> "HullError"]
    ELSE IF shield_points > template.shield_capacity THEN [ok |-> FALSE, err |-> "ShieldError"]
    ELSE [ok |-> TRUE,
          val |-> Ship_from_parts(template, fuel_units, hull_points, shield_points)]

\* Ship::set_hull_points
set_hull_points(self, val) ==
    IF val > self.template.max_hull
    THEN [self |-> self, ret |-> "HullError"]
    ELSE [self |-> [self EXCEPT !.hull_points = val], ret |-> "Ok"]

\* Ship::set_shield_points
set_shield_points(self, val) ==
    IF val > self.template.shield_capacity
    THEN [self |-> self, ret |-> "ShieldError"]
    ELSE [self |-> [self EXCEPT !.shield_points = val], ret |-> "Ok"]

\* Ship::set_fuel_units
set_fuel_units(self, val) ==
    IF val > self.template.fuel_capacity
    THEN [self |-> self, ret |-> "FuelError"]
    ELSE [self |-> [self EXCEPT !.fuel_units = val], ret |-> "Ok"]

\* A plausible slip: the new template's shield capacity is not checked.
set_template_shield_unchecked(self, val) ==
    IF self.fuel_units > val.fuel_capacity THEN [self |-> self, ret |-> "FuelError"]
    ELSE IF self.hull_points > val.max_hull THEN [self |-> self, ret |-> "HullError"]
    ELSE [self |-> [self EXCEPT !.template = val], ret |-> "Ok"]

\* Ship::set_template
set_template(self, val) ==
    IF self.fuel_units > val.fuel_capacity THEN [self |-> self, ret |-> "FuelError"]
    ELSE IF self.hull_points > val.max_hull THEN [self |-> self, ret |-> "HullError"]
    ELSE IF self.shield_points > val.shield_capacity
    THEN [self |-> self, ret |-> "ShieldError"]
    ELSE [self |-> [self EXCEPT !.template = val], ret |-> "Ok"]

\* Ship::is_alive
Ship_is_alive(self) == self.hull_points # 0

\* A plausible slip: the regenerated shields are not held to the capacity.
regenerate_shields_unclamped(self) ==
    [self EXCEPT !.shield_points = AsUInt(@ + self.template.shield_recovery)]

\* Ship::regenerate_shields (the u32 addition wraps where it overflows)
Ship_regenerate_shields(self) ==
    LET added == AsUInt(self.shield_points + self.template.shield_recovery)
    IN  [self EXCEPT !.shield_points =
            IF added > self.template.shield_capacity
            THEN self.template.shield_capacity ELSE added]

\* A plausible slip: the hull soaks up the damage before the shields do.
simulate_damage_hull_first(self, damage) ==
    IF damage < self.hull_points
    THEN <<self.hull_points - damage, self.shield_points, 0>>
    ELSE LET rest == damage - self.hull_points
         IN  IF rest < self.shield_points
             THEN <<0, self.shield_points - rest, 0>>
             ELSE <<0, 0, rest - self.shield_points>>

\* A plausible slip: a ship that dies hands back all the damage it was dealt.
simulate_damage_full_leftover(self, damage) ==
    IF damage < self.shield_points
    THEN <<self.hull_points, self.shield_points - damage, 0>>
    ELSE IF damage - self.shield_points < self.hull_points
         THEN <<self.hull_points - (damage - self.shield_points), 0, 0>>
         ELSE <<0, 0, damage>>

\* Ship::simulate_damage: <<hull, shield, left over damage>>
simulate_damage(self, damage) ==
    IF damage < self.shield_points
    THEN <<self.hull_points, self.shield_points - damage, 0>>
    ELSE LET rest == damage - self.shield_points
         IN  IF rest < self.hull_points
             THEN <<self.hull_points - rest, 0, 0>>
             ELSE <<0, 0, rest - self.hull_points>>

\* Ship::resolve_damage
Ship_resolve_damage(self, damage) ==
    LET simulation == simulate_damage(self, damage)
    IN  [self |-> [self EXCEPT !.hull_points = simulation[1],
                               !.shield_points = simulation[2]],
         ret |-> simulation[3]]

(***************************************************************************)
(* ReducedShip (reduced_ship.rs).                                          *)
(***************************************************************************)
\* ReducedShip::new
ReducedShip_new(average_ship, number) ==
    [average_ship |-> average_ship, number |-> number]

\* ReducedShip::is_alive
ReducedShip_is_alive(self) == self.number # 0

\* ReducedShip::regenerate_shields
ReducedShip_regenerate_shields(self) ==
    [self EXCEPT !.average_ship = Ship_regenerate_shields(self.average_ship)]

\* A plausible slip: the damage is not divided, each unit is dealt all of it.
portion_undivided(damage, to_iterate) == damage

\* resolve_damage, `let portion = damage / to_iterate`
portion_of(damage, to_iterate) == damage \div to_iterate

\* A plausible slip: the wrong tuple field decides whether the unit died.
died_by_shield(simulation) == simulation[2] = 0

\* A unit counted as dead only when it handed damage back.
died_on_leftover(simulation) == simulation[3] # 0

\* resolve_damage, `if simulation.0 == 0`: the simulated unit died.
died(simulation) == simulation[1] = 0

\* A plausible slip: the average is rounded up.
average_rounded_up(total, number) == AsUInt((total + number - 1) \div number)

\* resolve_damage, `(remaining / self.number as u64) as HullPoint`
average(total, number) == AsUInt(total \div number)

\* A plausible slip: the units that were not attacked are left out of the totals.
unattacked_total_dropped(points, unattacked) == 0

\* resolve_damage, `get_hull_points() as u64 * unattacked as u64`
unattacked_total(points, unattacked) == points * unattacked

\* The while loop of ReducedShip::resolve_damage. st holds the locals and
\* self.number; st.simulations lists what simulate_damage returned in each
\* iteration.
RECURSIVE resolve_damage_loop(_, _)
resolve_damage_loop(average_ship, st) ==
    IF ~(st.to_iterate > 0 /\ st.damage # 0) THEN st
    ELSE
        LET portion == portion_of(st.damage, st.to_iterate)
            simulation == simulate_damage(average_ship, portion)
            damage == IF died(simulation)
                      THEN (st.damage - portion) + simulation[3]
                      ELSE st.damage - portion
        IN  resolve_damage_loop(average_ship,
                [number |-> IF died(simulation) THEN st.number - 1 ELSE st.number,
                 damage |-> damage,
                 remaining_hull |-> IF died(simulation) THEN st.remaining_hull
                                    ELSE st.remaining_hull + simulation[1],
                 remaining_shield |-> IF died(simulation) THEN st.remaining_shield
                                      ELSE st.remaining_shield + simulation[2],
                 unattacked |-> st.unattacked - 1,
                 to_iterate |-> Min(st.to_iterate - 1, damage),
                 simulations |-> Append(st.simulations, simulation)])

\* A plausible slip: the representative of a group that was wiped out is set
\* to the dead ship (hull 0, shield 0) instead of being left as it was.
resolve_damage_zeroing_dead(self, damage) ==
    LET st == resolve_damage_loop(self.average_ship,
                [number |-> self.number,
                 damage |-> damage,
                 remaining_hull |-> 0,
                 remaining_shield |-> 0,
                 unattacked |-> self.number,
                 to_iterate |-> Min(self.number, damage),
                 simulations |-> << >>])
        remaining_hull == st.remaining_hull
            + unattacked_total(self.average_ship.hull_points, st.unattacked)
        remaining_shield == st.remaining_shield
            + unattacked_total(self.average_ship.shield_points, st.unattacked)
    IN  [self |-> [average_ship |->
                    IF st.number # 0
                    THEN [self.average_ship EXCEPT
                            !.hull_points = average(remaining_hull, st.number),
                            !.shield_points = average(remaining_shield, st.number)]
                    ELSE [self.average_ship EXCEPT
                            !.hull_points = 0, !.shield_points = 0],
                   number |-> st.number],
         ret |-> st.damage,
         simulations |-> st.simulations]

\* ReducedShip::resolve_damage: the group afterwards, the damage returned, and
\* the loop's record (simulations, unattacked).
ReducedShip_resolve_damage(self, damage) ==
    LET st == resolve_damage_loop(self.average_ship,
                [number |-> self.number,
                 damage |-> damage,
                 remaining_hull |-> 0,
                 remaining_shield |-> 0,
                 unattacked |-> self.number,
                 to_iterate |-> Min(self.number, damage),
                 simulations |-> << >>])
        remaining_hull == st.remaining_hull
            + unattacked_total(self.average_ship.hull_points, st.unattacked)
        remaining_shield == st.remaining_shield
            + unattacked_total(self.average_ship.shield_points, st.unattacked)
        hull_set == set_hull_points(self.average_ship,
                                    average(remaining_hull, st.number)).self
        shield_set == set_shield_points(hull_set,
                                        average(remaining_shield, st.number)).self
    IN  [self |-> [average_ship |-> IF st.number # 0 THEN shield_set
                                    ELSE self.average_ship,
                   number |-> st.number],
         ret |-> st.damage,
         simulations |-> st.simulations]

(***************************************************************************)
(* Attack, TargetedAttack and ReducedAttacks (attacks.rs).  A              *)
(* ReducedAttacks is its Vec<TargetedAttack>: a sequence of                *)
(* [attack |-> [parralel_attacks, damage_per_attack], smallest_target].    *)
(***************************************************************************)
\* Attack::new
Attack_new(parralel_attacks, damage_per_attack) ==
    [parralel_attacks |-> parralel_attacks, damage_per_attack |-> damage_per_attack]

\* TargetedAttack::new
TargetedAttack_new(attack, smallest_target) ==
    [attack |-> attack, smallest_target |-> smallest_target]

\* A plausible slip: the comparison the wrong way round.
valid_target_reversed(self, target_size) == self.smallest_target >= target_size

\* TargetedAttack::valid_target
valid_target(self, target_size) == self.smallest_target <= target_size

\* TargetedAttack::same_target
same_target(self, other) == self.smallest_target = other.smallest_target

\* Attack::same_damage
same_damage(self, other) == self.damage_per_attack = other.damage_per_attack

\* Attack::sum_damage
sum_damage(self) == AsUInt(self.parralel_attacks * self.damage_per_attack)

\* Ord for UInt
cmp_uint(a, b) == IF a < b THEN "Less" ELSE IF a = b THEN "Equal" ELSE "Greater"

\* Ord for TargetedAttack: smallest target, then damage per attack, then
\* parralel attacks.
cmp(self, other) ==
    LET by_target == cmp_uint(self.smallest_target, other.smallest_target)
        by_damage == cmp_uint(self.attack.damage_per_attack,
                              other.attack.damage_per_attack)
    IN  IF by_target = "Equal"
        THEN IF by_damage = "Equal"
             THEN cmp_uint(self.attack.parralel_attacks, other.attack.parralel_attacks)
             ELSE by_damage
        ELSE by_target

\* Attack::merge: self afterwards and whether `other` is handed back.
Attack_merge(self, other) ==
    IF same_damage(self, other)
    THEN [self |-> [self EXCEPT !.parralel_attacks =
                        AsUInt(@ + other.parralel_attacks)],
          ret |-> "None"]
    ELSE [self |-> self, ret |-> "Some"]

\* Vec::sort_unstable under cmp.  cmp is Equal only for identical entries, so
\* the sorted order is the same whatever the algorithm: an insertion sort.
RECURSIVE sort_insert(_, _)
sort_insert(sorted, x) ==
    IF sorted = << >> THEN <<x>>
    ELSE IF cmp(x, Head(sorted)) = "Less" THEN <<x>> \o sorted
    ELSE <<Head(sorted)>> \o sort_insert(Tail(sorted), x)

RECURSIVE sort_unstable(_)
sort_unstable(v) ==
    IF v = << >> THEN << >>
    ELSE sort_insert(sort_unstable(SubSeq(v, 1, Len(v) - 1)), v[Len(v)])

\* The closure ReducedAttacks::new hands to Vec::dedup_by.  dedup_by calls
\* same_bucket(a, b) with a the element under test and b the element kept
\* before it, and removes a when the closure returns true; the closure names
\* its first parameter `prev` and its second `attack`.  It yields what the
\* closure returns and `prev` as the closure leaves it.
dedup_closure(prev, attack) ==
    IF same_target(prev, attack)
    THEN LET merged == Attack_merge(prev.attack, attack.attack)
         IN  [same_bucket |-> merged.ret = "None",
              prev |-> [prev EXCEPT !.attack = merged.self]]
    ELSE [same_bucket |-> FALSE, prev |-> prev]

\* Vec::dedup_by with that closure: v[r] is tested against the last element
\* kept; it is dropped when the closure returns true and kept otherwise.
RECURSIVE dedup_by(_, _, _)
dedup_by(v, r, kept) ==
    IF r > Len(v) THEN kept
    ELSE LET res == dedup_closure(v[r], kept[Len(kept)])
         IN  IF res.same_bucket
             THEN dedup_by(v, r + 1, kept)
             ELSE dedup_by(v, r + 1, Append(kept, res.prev))

\* ReducedAttacks::new
ReducedAttacks_new(attacks) ==
    LET sorted == sort_unstable(attacks)
    IN  IF Len(sorted) <= 1 THEN sorted
        ELSE dedup_by(sorted, 2, <<sorted[1]>>)

\* A comparator that looks at smallest_target alone.
search_cmp_by_target(existing, attack) ==
    cmp_uint(existing.smallest_target, attack.smallest_target)

\* The comparator add_attack hands to binary_search_by.
search_cmp(existing, attack) ==
    LET by_target == cmp_uint(existing.smallest_target, attack.smallest_target)
    IN  IF by_target = "Equal"
        THEN cmp_uint(existing.attack.damage_per_attack, attack.attack.damage_per_attack)
        ELSE by_target

\* slice::binary_search_by on a slice sorted under the comparator: Ok(index)
\* of the match, or Err(index) where the entry is to be inserted.
binary_search_by(v, attack) ==
    LET found == { i \in 1..Len(v) : search_cmp(v[i], attack) = "Equal" }
        less == { i \in 1..Len(v) : search_cmp(v[i], attack) = "Less" }
    IN  IF found # {}
        THEN [ok |-> TRUE, index |-> CHOOSE i \in found : TRUE]
        ELSE [ok |-> FALSE, index |-> Cardinality(less) + 1]

\* ReducedAttacks::add_attack
add_attack(self, attack) ==
    LET at == binary_search_by(self, attack)
    IN  IF at.ok
        THEN [self EXCEPT ![at.index].attack.parralel_attacks =
                    AsUInt(@ + attack.attack.parralel_attacks)]
        ELSE SubSeq(self, 1, at.index - 1) \o <<attack>>
                \o SubSeq(self, at.index, Len(self))

\* ReducedAttacks::add_attacks
RECURSIVE add_attacks(_, _)
add_attacks(self, attacks) ==
    IF attacks = << >> THEN self
    ELSE add_attacks(add_attack(self, Head(attacks)), Tail(attacks))

\* ReducedAttacks::clear_used_attacks
RECURSIVE clear_used_attacks(_)
clear_used_attacks(self) ==
    IF self = << >> THEN << >>
    ELSE IF Head(self).attack.parralel_attacks # 0
         THEN <<Head(self)>> \o clear_used_attacks(Tail(self))
         ELSE clear_used_attacks(Tail(self))

(***************************************************************************)
(* resolve_attacks of Ship (ship.rs) and of ReducedShip (reduced_ship.rs). *)
(* `i` is the position of the filtered iterator in the pool.  The division *)
(* by damage_per_attack panics when it is 0, after resolve_damage has      *)
(* acted: `panicked` tells, and the pool entry is then left as it was.     *)
(***************************************************************************)
RECURSIVE Ship_resolve_attacks_loop(_, _, _)
Ship_resolve_attacks_loop(self, attacks, i) ==
    IF ~Ship_is_alive(self) \/ i > Len(attacks)
    THEN [self |-> self, attacks |-> attacks, panicked |-> FALSE]
    ELSE IF ~valid_target(attacks[i], self.template.ship_size_class)
    THEN Ship_resolve_attacks_loop(self, attacks, i + 1)
    ELSE LET r == Ship_resolve_damage(self, sum_damage(attacks[i].attack))
         IN  IF attacks[i].attack.damage_per_attack = 0
             THEN [self |-> r.self, attacks |-> attacks, panicked |-> TRUE]
             ELSE Ship_resolve_attacks_loop(r.self,
                    [attacks EXCEPT ![i].attack.parralel_attacks =
                        r.ret \div attacks[i].attack.damage_per_attack],
                    i + 1)

\* A plausible slip: the used up entries are dropped from the pool at once,
\* as clear_used_attacks does.
resolve_attacks_clearing(self, attacks) ==
    [Ship_resolve_attacks_loop(self, attacks, 1) EXCEPT
        !.attacks = clear_used_attacks(@)]

\* Ship::resolve_attacks
Ship_resolve_attacks(self, attacks) == Ship_resolve_attacks_loop(self, attacks, 1)

RECURSIVE ReducedShip_resolve_attacks_loop(_, _, _, _)
ReducedShip_resolve_attacks_loop(self, attacks, i, simulations) ==
    IF ~ReducedShip_is_alive(self) \/ i > Len(attacks)
    THEN [self |-> self, attacks |-> attacks, panicked |-> FALSE,
          simulations |-> simulations]
    ELSE IF ~valid_target(attacks[i], self.average_ship.template.ship_size_class)
    THEN ReducedShip_resolve_attacks_loop(self, attacks, i + 1, simulations)
    ELSE LET r == ReducedShip_resolve_damage(self, sum_damage(attacks[i].attack))
         IN  IF attacks[i].attack.damage_per_attack = 0
             THEN [self |-> r.self, attacks |-> attacks, panicked |-> TRUE,
                   simulations |-> simulations \o r.simulations]
             ELSE ReducedShip_resolve_attacks_loop(r.self,
                    [attacks EXCEPT ![i].attack.parralel_attacks =
                        r.ret \div attacks[i].attack.damage_per_attack],
                    i + 1, simulations \o r.simulations)

\* ReducedShip::resolve_attacks; simulations lists what simulate_damage
\* returned in every iteration of every resolve_damage it made.
ReducedShip_resolve_attacks(self, attacks) ==
    ReducedShip_resolve_attacks_loop(self, attacks, 1, << >>)

(***************************************************************************)
(* TargetedDamage (weapons/targeted_damage.rs) and RepeatedShip, ShipGroup *)
(* and Fleet (fleets.rs).  A RepeatedShip is [ship_average, counter], a    *)
(* ShipGroup its Vec<RepeatedShip>, a Fleet its Vec<ShipGroup>.  The       *)
(* attacks handed to resolve_attacks are an iterator over &mut             *)
(* TargetedDamage: [items, next], the TargetedDamage values it runs over   *)
(* and the position of the item next() yields (past the end: None).        *)
(***************************************************************************)
\* TargetedDamage::new
TargetedDamage_new(target_size, damage) ==
    [target_size |-> target_size, damage |-> damage]

\* RepeatedShip::new
RepeatedShip_new(ship_average, counter) ==
    [ship_average |-> ship_average, counter |-> counter]

\* ShipTemplate::is_valid_for, which fleets.rs calls and no source file
\* defines: the attack targets this template's size of ship (target_size is
\* "the specific size of ship being targeted").
is_valid_for(template, attack) == template.ship_size_class = attack.target_size

\* Vec::swap_remove: the element at index goes, the last one takes its place.
swap_remove(v, index) ==
    IF index = Len(v) THEN SubSeq(v, 1, Len(v) - 1)
    ELSE [SubSeq(v, 1, Len(v) - 1) EXCEPT ![index] = v[Len(v)]]

\* The body of the loop of RepeatedShip::resolve_damage, from the
\* simulation on.  The tuple simulate_damage returns, (hull, shield, left
\* over), is bound to (shield_points, hull_points, remaining_damage).
RepeatedShip_resolve_damage_body(st, passed_damage, simulation) ==
    LET shield_points == simulation[1]
        hull_points == simulation[2]
        remaining_damage == simulation[3]
    IN  IF hull_points = 0
        THEN [st EXCEPT !.counter = @ - 1,
                        !.damage = (@ - passed_damage) + remaining_damage,
                        !.undamaged = @ - 1]
        ELSE [st EXCEPT !.damage = @ - passed_damage,
                        !.remaining_shield_points = @ + shield_points,
                        !.remaining_hull_points = @ + hull_points,
                        !.still_alive = @ + 1,
                        !.undamaged = @ - 1]

\* The loop of RepeatedShip::resolve_damage.
RECURSIVE RepeatedShip_resolve_damage_loop(_, _)
RepeatedShip_resolve_damage_loop(ship_average, st) ==
    IF st.undamaged = 0 \/ st.damage = 0 THEN st
    ELSE RepeatedShip_resolve_damage_loop(ship_average,
            RepeatedShip_resolve_damage_body(st, st.damage \div st.undamaged,
                simulate_damage(ship_average, st.damage \div st.undamaged)))

\* The averages RepeatedShip::resolve_damage ends with, st being what the loop
\* left.  They are UInt arithmetic: the division panics when counter is 0,
\* and a subtraction below 0 panics in a build with overflow checks and wraps
\* in one without.
RepeatedShip_resolve_damage_averages(self, st, overflow_checks) ==
    LET lost_shield == st.remaining_shield_points
                        - st.still_alive * self.ship_average.shield_points
        lost_hull == st.remaining_hull_points
                        - st.still_alive * self.ship_average.hull_points
        panicked == \/ st.counter = 0
                    \/ overflow_checks /\ (lost_shield < 0 \/ lost_hull < 0)
    IN  IF panicked
        THEN [self |-> [self EXCEPT !.counter = st.counter],
              ret |-> st.damage, panicked |-> TRUE]
        ELSE [self |-> [ship_average |->
                            [self.ship_average EXCEPT
                                !.shield_points =
                                    AsUInt(@ + AsUInt(lost_shield) \div st.counter),
                                !.hull_points =
                                    AsUInt(@ + AsUInt(lost_hull) \div st.counter)],
                        counter |-> st.counter],
              ret |-> st.damage, panicked |-> FALSE]

\* RepeatedShip::resolve_damage
RepeatedShip_resolve_damage(self, damage, overflow_checks) ==
    RepeatedShip_resolve_damage_averages(self,
        RepeatedShip_resolve_damage_loop(self.ship_average,
            [damage |-> damage, counter |-> self.counter,
             undamaged |-> self.counter, still_alive |-> 0,
             remaining_shield_points |-> 0, remaining_hull_points |-> 0]),
        overflow_checks)

\* The number of RepeatedShips of the group the attack can target (the fold).
RECURSIVE valid_types_of(_, _)
valid_types_of(ships, attack) ==
    IF ships = << >> THEN 0
    ELSE (IF is_valid_for(Head(ships).ship_average.template, attack) THEN 1 ELSE 0)
            + valid_types_of(Tail(ships), attack)

\* The branch of the inner loop of ShipGroup::resolve_attacks that attacks
\* ships[index], r being what its resolve_damage(passed_damage) yields:
\* valid_types and attack.damage are updated, and the RepeatedShip is removed
\* when none of its ships is left.
distribute_attacked(st, passed_damage, r) ==
    LET ships == [st.ships EXCEPT ![st.index + 1] = r.self]
    IN  IF r.panicked
        THEN [st EXCEPT !.ships = ships, !.panicked = TRUE,
                        !.valid_types = st.valid_types - 1,
                        !.attack.damage = st.attack.damage - passed_damage]
        ELSE [st EXCEPT !.valid_types = st.valid_types - 1,
                        !.attack.damage =
                            AsUInt((st.attack.damage - passed_damage) + r.ret),
                        !.ships = IF r.self.counter = 0
                                  THEN swap_remove(ships, st.index + 1)
                                  ELSE ships]

\* The inner loop of ShipGroup::resolve_attacks for one attack.  It is left
\* `if valid_types != 0 || attack.damage == 0`, or by a panic.  index counts
\* from 0 as in the source; ships[index] of the source is
\* st.ships[st.index + 1].
RECURSIVE distribute_loop(_, _)
distribute_loop(st, overflow_checks) ==
    IF st.panicked THEN st
    ELSE IF st.valid_types # 0 \/ st.attack.damage = 0 THEN st
    ELSE IF st.index >= Len(st.ships) THEN [st EXCEPT !.panicked = TRUE]
    ELSE IF is_valid_for(st.ships[st.index + 1].ship_average.template, st.attack)
    THEN IF st.valid_types = 0 THEN [st EXCEPT !.panicked = TRUE]
         ELSE distribute_loop(
                distribute_attacked(st, st.attack.damage \div st.valid_types,
                    RepeatedShip_resolve_damage(st.ships[st.index + 1],
                        st.attack.damage \div st.valid_types, overflow_checks)),
                overflow_checks)
    ELSE distribute_loop([st EXCEPT !.index = @ + 1], overflow_checks)

\* What the closure of ShipGroup::resolve_attacks does with one attack: the
\* fold, then the inner loop when the attack has possible targets.
distribute(ships, attack, valid_types, overflow_checks) ==
    IF valid_types # 0
    THEN distribute_loop([ships |-> ships, attack |-> attack,
                          valid_types |-> valid_types, index |-> 0,
                          panicked |-> FALSE], overflow_checks)
    ELSE [ships |-> ships, attack |-> attack, panicked |-> FALSE]

\* The call of ShipGroup::resolve_attacks after the item at attacks.next has
\* been handled, st being what the closure left: the item holds the damage
\* the closure left it and the iterator has moved on.
ShipGroup_resolve_attacks_next(r, st) ==
    [self |-> st.ships,
     attacks |-> [items |-> [r.attacks.items EXCEPT ![r.attacks.next] = st.attack],
                  next |-> r.attacks.next + 1],
     given |-> Append(r.given, r.attacks.items[r.attacks.next]),
     panicked |-> st.panicked]

\* ShipGroup::resolve_attacks: attacks.for_each takes every item the iterator
\* still yields, in order, and leaves the iterator exhausted.  r is the call
\* so far: the group, the iterator, the items as the group was handed them
\* (`given`) and whether it panicked.
RECURSIVE ShipGroup_resolve_attacks_from(_, _)
ShipGroup_resolve_attacks_from(r, overflow_checks) ==
    IF r.panicked \/ r.attacks.next > Len(r.attacks.items) THEN r
    ELSE ShipGroup_resolve_attacks_from(
            ShipGroup_resolve_attacks_next(r,
                distribute(r.self, r.attacks.items[r.attacks.next],
                           valid_types_of(r.self, r.attacks.items[r.attacks.next]),
                           overflow_checks)),
            overflow_checks)

ShipGroup_resolve_attacks(self, attacks, overflow_checks) ==
    ShipGroup_resolve_attacks_from(
        [self |-> self, attacks |-> attacks, given |-> << >>, panicked |-> FALSE],
        overflow_checks)

\* ShipGroup::types_count
types_count(self) == Len(self)

\* Fleet::resolve_attacks after the group at position g has resolved the
\* attacks, r being what its resolve_attacks yields.  `visits` lists, for
\* every group resolve_attacks was called on, its position, the items it was
\* given and the items of the pool as the call left them.
Fleet_resolve_attacks_next(f, g, r) ==
    [self |-> [f.self EXCEPT ![g] = r.self],
     attacks |-> r.attacks,
     visits |-> Append(f.visits,
                       [group |-> g, given |-> r.given, left |-> r.attacks.items]),
     panicked |-> r.panicked]

\* Fleet::resolve_attacks from the group at position g on: the groups with
\* types_count() != 0, in order, each handed the same iterator.
RECURSIVE Fleet_resolve_attacks_from(_, _, _)
Fleet_resolve_attacks_from(f, g, overflow_checks) ==
    IF f.panicked \/ g > Len(f.self) THEN f
    ELSE IF types_count(f.self[g]) = 0
    THEN Fleet_resolve_attacks_from(f, g + 1, overflow_checks)
    ELSE Fleet_resolve_attacks_from(
            Fleet_resolve_attacks_next(f, g,
                ShipGroup_resolve_attacks(f.self[g], f.attacks, overflow_checks)),
            g + 1, overflow_checks)

Fleet_resolve_attacks(self, attacks, overflow_checks) ==
    Fleet_resolve_attacks_from(
        [self |-> self, attacks |-> attacks, visits |-> << >>, panicked |-> FALSE],
        1, overflow_checks)

(***************************************************************************)
(* Values of the variables a specification does not use.                   *)
(***************************************************************************)
NoTemplate == ShipTemplate_new(1, 1, 0, 0, 0, 0, 0, 1, 1).val
NoShip == Ship_from_parts(NoTemplate, 0, 0, 0)
NoGroup == ReducedShip_new(NoShip, 0)
NoRepeated == [ship_average |-> NoShip, counter |-> 0]
NoBuf == [templates |-> << >>, max_loaded |-> 0, held |-> << >>]
NoCall == [op |-> "none"]

\* Every Ship that Ship::new builds over Templates.
Ships ==
    { Ship_new(t, 1, h, s).val :
        <<t, h, s>> \in { q \in Templates \X (0..MaxHull) \X (0..MaxShield) :
                            Ship_new(q[1], 1, q[2], q[3]).ok } }

(***************************************************************************)
(* The attack descriptors and the pools the model draws from.              *)
(***************************************************************************)
MaxParallel == 3
MaxPerAttack == 2
MaxTarget == 2
MaxList == 2

AttackEntries ==
    { TargetedAttack_new(Attack_new(p, d), t) :
        p \in 1..MaxParallel, d \in 1..MaxPerAttack, t \in 1..MaxTarget }

\* The Vecs of n elements of S.
ListsOfLength(S, n) == [1..n -> S]

AttackLists == UNION { ListsOfLength(AttackEntries, n) : n \in 0..MaxList }

\* The pools a ReducedShip is attacked with: built by ReducedAttacks::new from
\* at most two descriptors of one or MaxParallel attacks, of one or
\* MaxPerAttack damage points each, that can (1) or cannot (MaxTarget) target
\* a ship of size class 1.
GroupPools ==
    { ReducedAttacks_new(l) :
        l \in UNION { ListsOfLength(
                        { TargetedAttack_new(Attack_new(p, d), t) :
                            p \in {1, MaxParallel}, d \in {1, MaxPerAttack},
                            t \in {1, MaxTarget} }, n) : n \in 0..2 } }

(***************************************************************************)
(* Spec: a ReducedShip under resolve_damage, resolve_attacks and           *)
(* regenerate_shields.                                                     *)
(***************************************************************************)
Init ==
    /\ ship_template = NoTemplate
    /\ repeated = NoRepeated
    /\ buf = NoBuf
    /\ group \in { ReducedShip_new(s, n) : s \in Ships, n \in 0..MaxCount }
    /\ ship = NoShip
    /\ pool = << >>
    /\ fleet = << >>
    /\ last = NoCall

ResolveDamage ==
    \E damage \in 0..MaxDamage :
        LET r == ReducedShip_resolve_damage(group, damage)
        IN  /\ group' = r.self
            /\ last' = [op |-> "resolve_damage", damage |-> damage, pre |-> group,
                        ret |-> r.ret, simulations |-> r.simulations]
            /\ UNCHANGED <<ship, pool, fleet, repeated, buf, ship_template>>

ResolveAttacks ==
    \E attacks \in GroupPools :
        LET r == ReducedShip_resolve_attacks(group, attacks)
        IN  /\ group' = r.self
            /\ last' = [op |-> "resolve_attacks", attacks |-> attacks, pre |-> group,
                        left |-> r.attacks, panicked |-> r.panicked,
                        simulations |-> r.simulations]
            /\ UNCHANGED <<ship, pool, fleet, repeated, buf, ship_template>>

RegenerateShields ==
    /\ group' = ReducedShip_regenerate_shields(group)
    /\ last' = [op |-> "regenerate_shields", pre |-> group, simulations |-> << >>]
    /\ UNCHANGED <<ship, pool, fleet, repeated, buf, ship_template>>

Next == ResolveDamage \/ ResolveAttacks \/ RegenerateShields

Spec == Init /\ [][Next]_vars

(***************************************************************************)
(* SpecShip: a Ship under resolve_damage and regenerate_shields.           *)
(***************************************************************************)
InitShip ==
    /\ ship_template = NoTemplate
    /\ repeated = NoRepeated
    /\ buf = NoBuf
    /\ ship \in Ships
    /\ group = NoGroup
    /\ pool = << >>
    /\ fleet = << >>
    /\ last = NoCall

ShipResolveDamage ==
    \E damage \in 0..MaxDamage :
        LET r == Ship_resolve_damage(ship, damage)
        IN  /\ ship' = r.self
            /\ last' = [op |-> "resolve_damage", damage |-> damage, pre |-> ship,
                        ret |-> r.ret]
            /\ UNCHANGED <<group, pool, fleet, repeated, buf, ship_template>>

ShipRegenerateShields ==
    /\ ship' = Ship_regenerate_shields(ship)
    /\ last' = [op |-> "regenerate_shields", pre |-> ship]
    /\ UNCHANGED <<group, pool, fleet, repeated, buf, ship_template>>

NextShip == ShipResolveDamage \/ ShipRegenerateShields

SpecShip == InitShip /\ [][NextShip]_vars

(***************************************************************************)
(* SpecAttacks: ReducedAttacks::new applied to every list of descriptors.  *)
(***************************************************************************)
InitAttacks ==
    /\ ship_template = NoTemplate
    /\ repeated = NoRepeated
    /\ buf = NoBuf
    /\ last \in { [op |-> "input", attacks |-> l] : l \in AttackLists }
    /\ pool = << >>
    /\ ship = NoShip
    /\ group = NoGroup
    /\ fleet = << >>

New ==
    /\ last.op = "input"
    /\ pool' = ReducedAttacks_new(last.attacks)
    /\ last' = [op |-> "new", attacks |-> last.attacks]
    /\ UNCHANGED <<ship, group, fleet, repeated, buf, ship_template>>

NextAttacks == New

SpecAttacks == InitAttacks /\ [][NextAttacks]_vars

(***************************************************************************)
(* SpecFleet: a Fleet under resolve_attacks.                               *)
(***************************************************************************)
\* Ship::from(template): full fuel, hull and shield.
Ship_from(template) ==
    Ship_from_parts(template, template.fuel_capacity, template.max_hull,
                    template.shield_capacity)

\* The ShipGroups of the model: the empty group, and every group of one or of
\* MaxCount new ships of one template.
ShipGroups ==
    { << >> } \cup
    { <<RepeatedShip_new(Ship_from(t), n)>> : t \in Templates, n \in {1, MaxCount} }

\* The Fleets of the model: two or three ShipGroups.
Fleets == ListsOfLength(ShipGroups, 2) \cup ListsOfLength(ShipGroups, 3)

\* The attacks of the model: at most two TargetedDamages, aimed at size class
\* 1 (the ships') or at MaxTarget, of one or MaxDamage damage points.
DamageLists ==
    UNION { ListsOfLength({ TargetedDamage_new(t, d) :
                                t \in {1, MaxTarget}, d \in {1, MaxDamage} }, n) :
            n \in 0..2 }

InitFleet ==
    /\ ship_template = NoTemplate
    /\ repeated = NoRepeated
    /\ buf = NoBuf
    /\ fleet \in Fleets
    /\ ship = NoShip
    /\ group = NoGroup
    /\ pool = << >>
    /\ last = NoCall

FleetResolveAttacks ==
    \E items \in DamageLists, overflow_checks \in BOOLEAN :
        LET r == Fleet_resolve_attacks(fleet, [items |-> items, next |-> 1],
                                       overflow_checks)
        IN  /\ fleet' = r.self
            /\ last' = [op |-> "resolve_attacks", attacks |-> items, pre |-> fleet,
                        left |-> r.attacks.items, visits |-> r.visits,
                        panicked |-> r.panicked]
            /\ UNCHANGED <<ship, group, pool, repeated, buf, ship_template>>

NextFleet == FleetResolveAttacks

SpecFleet == InitFleet /\ [][NextFleet]_vars

(***************************************************************************)
(* SpecScenario: ReducedShip::resolve_damage on groups of up to 10 ships   *)
(* of the template of size class 1 with max_hull 100, shield_capacity 100  *)
(* and shield_recovery 1, with their shields down.                         *)
(***************************************************************************)
ScenarioTemplate == ShipTemplate_new(1, 10, 1, 100, 100, 1, 0, 1, 0).val

InitScenario ==
    /\ ship_template = NoTemplate
    /\ repeated = NoRepeated
    /\ buf = NoBuf
    /\ group \in { ReducedShip_new(Ship_new(ScenarioTemplate, 10, h, 0).val, n) :
                    h \in { 10 * k : k \in 1..10 }, n \in 1..10 }
    /\ ship = NoShip
    /\ pool = << >>
    /\ fleet = << >>
    /\ last = NoCall

ScenarioResolveDamage ==
    \E damage \in {50, 550} :
        LET r == ReducedShip_resolve_damage(group, damage)
        IN  /\ group' = r.self
            /\ last' = [op |-> "resolve_damage", damage |-> damage, pre |-> group,
                        ret |-> r.ret, simulations |-> r.simulations]
            /\ UNCHANGED <<ship, pool, fleet, repeated, buf, ship_template>>

NextScenario == ScenarioResolveDamage

SpecScenario == InitScenario /\ [][NextScenario]_vars

(***************************************************************************)
(* RepeatedShip::same_template, merge and checked_merge (fleets.rs).       *)
(***************************************************************************)
\* RepeatedShip::same_template
same_template(self, other) == self.ship_average.template = other.ship_average.template

\* One of the averages of RepeatedShip::merge:
\* ((a as i64 * counter_a as i64 / denom) + (b as i64 * counter_b as i64 / denom)) as UInt
merged_average(a, counter_a, b, counter_b, denom) ==
    AsUInt((a * counter_a) \div denom + (b * counter_b) \div denom)

\* RepeatedShip::merge.  self.counter + other.counter is UInt arithmetic (it
\* panics on overflow in a build with overflow checks and wraps in one
\* without), and the i64 divisions panic when denom is 0.
RepeatedShip_merge(self, other, overflow_checks) ==
    LET denom == AsUInt(self.counter + other.counter)
    IN  IF \/ denom = 0
           \/ overflow_checks /\ self.counter + other.counter > UIntMax
        THEN [self |-> self, panicked |-> TRUE]
        ELSE [self |->
                [ship_average |->
                    [self.ship_average EXCEPT
                        !.fuel_units =
                            merged_average(self.ship_average.fuel_units, self.counter,
                                           other.ship_average.fuel_units, other.counter,
                                           denom),
                        !.hull_points =
                            merged_average(self.ship_average.hull_points, self.counter,
                                           other.ship_average.hull_points, other.counter,
                                           denom),
                        !.shield_points =
                            merged_average(self.ship_average.shield_points, self.counter,
                                           other.ship_average.shield_points, other.counter,
                                           denom)],
                 counter |-> denom],
              panicked |-> FALSE]

\* RepeatedShip::checked_merge: ret is "None", or "Some" when `other` is
\* handed back.
RepeatedShip_checked_merge(self, other, overflow_checks) ==
    IF same_template(self, other)
    THEN [self |-> RepeatedShip_merge(self, other, overflow_checks).self,
          ret |-> "None",
          panicked |-> RepeatedShip_merge(self, other, overflow_checks).panicked]
    ELSE [self |-> self, ret |-> "Some", panicked |-> FALSE]

(***************************************************************************)
(* SpecMerge: a RepeatedShip under merge and checked_merge.                *)
(***************************************************************************)
\* The RepeatedShips of the model: no, one or MaxCount ships of a template,
\* spent (no fuel, hull or shield), at one point of fuel and hull, or full.
RepeatedShips ==
    { RepeatedShip_new(Ship_new(t, p[1], p[2], p[3]).val, n) :
        t \in Templates,
        p \in { <<0, 0, 0>>, <<1, 1, 0>>, <<1, MaxHull, MaxShield>> },
        n \in {0, 1, MaxCount} }

InitMerge ==
    /\ ship_template = NoTemplate
    /\ repeated \in RepeatedShips
    /\ ship = NoShip
    /\ group = NoGroup
    /\ pool = << >>
    /\ fleet = << >>
    /\ buf = NoBuf
    /\ last = NoCall

\* merge, which the callers of this file reach through checked_merge, on
\* RepeatedShips of one template.
Merge ==
    \E other \in RepeatedShips, overflow_checks \in BOOLEAN :
        /\ repeated.counter <= MaxCount
        /\ same_template(repeated, other)
        /\ repeated' = RepeatedShip_merge(repeated, other, overflow_checks).self
        /\ last' = [op |-> "merge", pre |-> repeated, other |-> other,
                    panicked |->
                        RepeatedShip_merge(repeated, other, overflow_checks).panicked]
        /\ UNCHANGED <<ship, group, pool, fleet, buf, ship_template>>

CheckedMerge ==
    \E other \in RepeatedShips, overflow_checks \in BOOLEAN :
        /\ repeated.counter <= MaxCount
        /\ repeated' = RepeatedShip_checked_merge(repeated, other, overflow_checks).self
        /\ last' = [op |-> "checked_merge", pre |-> repeated, other |-> other,
                    ret |-> RepeatedShip_checked_merge(repeated, other,
                                                      overflow_checks).ret,
                    panicked |-> RepeatedShip_checked_merge(repeated, other,
                                                           overflow_checks).panicked]
        /\ UNCHANGED <<ship, group, pool, fleet, buf, ship_template>>

NextMerge == Merge \/ CheckedMerge

SpecMerge == InitMerge /\ [][NextMerge]_vars

(***************************************************************************)
(* SpecShipOps: a Ship under its constructors, setters, regenerate_shields,*)
(* resolve_damage and resolve_attacks, or else a ReducedShip under         *)
(* resolve_damage, resolve_attacks and regenerate_shields.  A behaviour    *)
(* holds the one or the other: `group` is NoGroup while it is about a      *)
(* Ship, and `ship` is NoShip while it is about a ReducedShip.  Shields    *)
(* near the largest UInt take a new value with every regeneration that     *)
(* wraps and with every hit: the Ship regenerates and is attacked from the *)
(* shield values of OpsShield only.                                        *)
(***************************************************************************)
\* The templates a Ship is given: those of Templates, one with the smallest
\* capacities (no fuel, one hull point, no shields), and one whose shield
\* capacity and recovery are the largest UInt.
OpsTemplates ==
    Templates \cup
    { ShipTemplate_new(1, 0, 0, 1, 0, 0, 0, 1, 1).val,
      ShipTemplate_new(1, 1, 0, MaxHull, UIntMax, UIntMax, 0, 1, 1).val }

\* The values the setters are called with.
OpsFuel == 0..2
OpsHull == 0..(MaxHull + 1)
OpsShield == (0..(MaxShield + 1)) \cup {UIntMax}

\* Every Ship that Ship::new or Ship::from builds over OpsTemplates.
OpsShips ==
    { Ship_new(q[1], q[2], q[3], q[4]).val :
        q \in { x \in OpsTemplates \X OpsFuel \X OpsHull \X OpsShield :
                    Ship_new(x[1], x[2], x[3], x[4]).ok } }
    \cup { Ship_from(t) : t \in OpsTemplates }

InitShipOps ==
    /\ ship_template = NoTemplate
    /\ \/ ship \in OpsShips /\ group = NoGroup
       \/ /\ ship = NoShip
          /\ group \in { ReducedShip_new(s, n) : s \in Ships, n \in 1..MaxCount }
    /\ pool = << >>
    /\ fleet = << >>
    /\ repeated = NoRepeated
    /\ buf = NoBuf
    /\ last = NoCall

ShipFrom ==
    \E template \in OpsTemplates :
        /\ ship' = Ship_from(template)
        /\ last' = [op |-> "from", pre |-> ship, val |-> template]
        /\ UNCHANGED <<group, pool, fleet, repeated, buf, ship_template>>

ShipSetFuelUnits ==
    \E val \in OpsFuel :
        /\ ship' = set_fuel_units(ship, val).self
        /\ last' = [op |-> "set_fuel_units", pre |-> ship, val |-> val,
                    ret |-> set_fuel_units(ship, val).ret]
        /\ UNCHANGED <<group, pool, fleet, repeated, buf, ship_template>>

ShipSetHullPoints ==
    \E val \in OpsHull :
        /\ ship' = set_hull_points(ship, val).self
        /\ last' = [op |-> "set_hull_points", pre |-> ship, val |-> val,
                    ret |-> set_hull_points(ship, val).ret]
        /\ UNCHANGED <<group, pool, fleet, repeated, buf, ship_template>>

ShipSetShieldPoints ==
    \E val \in OpsShield :
        /\ ship' = set_shield_points(ship, val).self
        /\ last' = [op |-> "set_shield_points", pre |-> ship, val |-> val,
                    ret |-> set_shield_points(ship, val).ret]
        /\ UNCHANGED <<group, pool, fleet, repeated, buf, ship_template>>

ShipSetTemplate ==
    \E val \in OpsTemplates :
        /\ ship' = set_template(ship, val).self
        /\ last' = [op |-> "set_template", pre |-> ship, val |-> val,
                    ret |-> set_template(ship, val).ret]
        /\ UNCHANGED <<group, pool, fleet, repeated, buf, ship_template>>

ShipResolveAttacks ==
    \E attacks \in GroupPools :
        /\ ship' = Ship_resolve_attacks(ship, attacks).self
        /\ last' = [op |-> "resolve_attacks", attacks |-> attacks, pre |-> ship,
                    left |-> Ship_resolve_attacks(ship, attacks).attacks,
                    panicked |-> Ship_resolve_attacks(ship, attacks).panicked]
        /\ UNCHANGED <<group, pool, fleet, repeated, buf, ship_template>>

NextShipOps ==
    \/ /\ group = NoGroup
       /\ \/ ShipFrom
          \/ ShipSetFuelUnits
          \/ ShipSetHullPoints
          \/ ShipSetShieldPoints
          \/ ShipSetTemplate
          \/ /\ ship.shield_points \in OpsShield
             /\ \/ ShipRegenerateShields
                \/ ShipResolveDamage
                \/ ShipResolveAttacks
    \/ /\ ship = NoShip
       /\ \/ ResolveDamage
          \/ ResolveAttacks
          \/ RegenerateShields

SpecShipOps == InitShipOps /\ [][NextShipOps]_vars

(***************************************************************************)
(* SpecPool: one ReducedAttacks under new, add_attack, add_attacks,        *)
(* clear_used_attacks and the resolve_attacks of a Ship and of a           *)
(* ReducedShip.  An entry's parralel_attacks are kept within MaxParallel   *)
(* and the pool within MaxList + 1 entries; the target of a                *)
(* resolve_attacks is an argument of the call, kept in `last` as the call  *)
(* leaves it.                                                              *)
(***************************************************************************)
PoolFits(attacks) ==
    /\ Len(attacks) <= MaxList + 1
    /\ \A i \in 1..Len(attacks) :
            attacks[i].attack.parralel_attacks <= MaxParallel

\* The descriptors handed to the pool: one or MaxParallel attacks of one or
\* MaxPerAttack damage points each, against size class 1 or MaxTarget, in
\* Vecs of at most two.
PoolEntries ==
    { TargetedAttack_new(Attack_new(p, d), t) :
        p \in {1, MaxParallel}, d \in {1, MaxPerAttack}, t \in {1, MaxTarget} }

PoolLists == UNION { ListsOfLength(PoolEntries, n) : n \in 0..2 }

\* The live ships and groups a pool is resolved against.
PoolTargets ==
    { s \in Ships : /\ s.hull_points \in {1, MaxHull}
                    /\ s.shield_points = 0
                    /\ s.template.shield_recovery = 0 }

PoolGroupTargets == { ReducedShip_new(s, MaxCount) : s \in PoolTargets }

InitPool ==
    /\ ship_template = NoTemplate
    /\ pool = ReducedAttacks_new(<< >>)
    /\ ship = NoShip
    /\ group = NoGroup
    /\ fleet = << >>
    /\ repeated = NoRepeated
    /\ buf = NoBuf
    /\ last = NoCall

PoolNew ==
    \E attacks \in PoolLists :
        /\ pool' = ReducedAttacks_new(attacks)
        /\ last' = [op |-> "new"]
        /\ UNCHANGED <<ship, group, fleet, repeated, buf, ship_template>>

PoolAddAttack ==
    \E attack \in PoolEntries :
        /\ PoolFits(add_attack(pool, attack))
        /\ pool' = add_attack(pool, attack)
        /\ last' = [op |-> "add_attack", attack |-> attack, pre |-> pool]
        /\ UNCHANGED <<ship, group, fleet, repeated, buf, ship_template>>

PoolAddAttacks ==
    \E attacks \in PoolLists :
        /\ PoolFits(add_attacks(pool, attacks))
        /\ pool' = add_attacks(pool, attacks)
        /\ last' = [op |-> "add_attacks"]
        /\ UNCHANGED <<ship, group, fleet, repeated, buf, ship_template>>

PoolClearUsedAttacks ==
    /\ pool' = clear_used_attacks(pool)
    /\ last' = [op |-> "clear_used_attacks"]
    /\ UNCHANGED <<ship, group, fleet, repeated, buf, ship_template>>

PoolShipResolveAttacks ==
    \E target \in PoolTargets :
        /\ pool' = Ship_resolve_attacks(target, pool).attacks
        /\ last' = [op |-> "resolve_attacks", pre |-> pool,
                    target |-> Ship_resolve_attacks(target, pool).self]
        /\ UNCHANGED <<ship, group, fleet, repeated, buf, ship_template>>

PoolGroupResolveAttacks ==
    \E target \in PoolGroupTargets :
        /\ pool' = ReducedShip_resolve_attacks(target, pool).attacks
        /\ last' = [op |-> "resolve_attacks", pre |-> pool,
                    target |-> ReducedShip_resolve_attacks(target, pool).self]
        /\ UNCHANGED <<ship, group, fleet, repeated, buf, ship_template>>

NextPool ==
    \/ PoolNew
    \/ PoolAddAttack
    \/ PoolAddAttacks
    \/ PoolClearUsedAttacks
    \/ PoolShipResolveAttacks
    \/ PoolGroupResolveAttacks

SpecPool == InitPool /\ [][NextPool]_vars

(***************************************************************************)
(* SpecGetAttacks: ReducedShip::get_attacks (reduced_ship.rs).  It reads   *)
(* `self.average_ship.attacks`, a ReducedAttacks by the type it returns;   *)
(* the Ship of ship.rs declares no such field, so the attack profile of    *)
(* the representative is carried beside the group, in `pool`.              *)
(***************************************************************************)
\* The attack profiles a representative ship has.
Profiles == GroupPools

\* The profile handed back as it is.
get_attacks_unscaled(self, attacks) == attacks

\* ReducedShip::get_attacks, `attacks` being self.average_ship.attacks.
get_attacks(self, attacks) ==
    [i \in 1..Len(attacks) |->
        [attacks[i] EXCEPT !.attack.parralel_attacks = AsUInt(@ * self.number)]]

InitGetAttacks ==
    /\ ship_template = NoTemplate
    /\ group \in { ReducedShip_new(s, n) : s \in Ships, n \in 0..MaxCount }
    /\ pool \in Profiles
    /\ ship = NoShip
    /\ fleet = << >>
    /\ repeated = NoRepeated
    /\ buf = NoBuf
    /\ last = NoCall

GetAttacks ==
    /\ last' = [op |-> "get_attacks", pre |-> group, profile |-> pool,
                ret |-> get_attacks(group, pool)]
    /\ UNCHANGED <<ship, group, pool, fleet, repeated, buf, ship_template>>

NextGetAttacks == GetAttacks

SpecGetAttacks == InitGetAttacks /\ [][NextGetAttacks]_vars

(***************************************************************************)
(* TemplateBuf (ship_template.rs): `templates` is its Vec<NamedTemplate>,  *)
(* each [name, template], and `max_loaded` its limit.  `held` is history:  *)
(* the names held, in the order they were loaded.  load_template reads     *)
(* and parses a file: what it yields is an input of the call, `loaded`,    *)
(* [ok |-> TRUE, template |-> t] or [ok |-> FALSE].                        *)
(***************************************************************************)
MaxLoaded == 2
MaxNames == 3

Names == 1..MaxNames

LoadResults ==
    { [ok |-> FALSE] } \cup { [ok |-> TRUE, template |-> t] : t \in Templates }

\* TemplateBuf::new
TemplateBuf_new(max_loaded) ==
    [templates |-> << >>, max_loaded |-> max_loaded, held |-> << >>]

\* TemplateBuf::loaded
loaded(self) == Len(self.templates)

\* Vec::truncate
truncate(v, len) == IF len < Len(v) THEN SubSeq(v, 1, len) ELSE v

\* TemplateBuf::set_max_loaded
set_max_loaded(self, max_loaded) ==
    [self EXCEPT !.templates = truncate(@, max_loaded),
                 !.max_loaded = max_loaded]

\* The positions of `templates` that hold `name`.
found(self, name) == { i \in 1..loaded(self) : self.templates[i].name = name }

\* A get that makes room before it loads.
get_evicting_first(self, name, load) ==
    LET room == IF self.max_loaded = loaded(self) /\ loaded(self) > 0
                THEN [self EXCEPT !.templates = Tail(@)]
                ELSE self
    IN  IF found(self, name) # {}
        THEN [self |-> self, panicked |-> FALSE,
              ret |-> <<"Some", self.templates[CHOOSE i \in found(self, name) :
                                    \A j \in found(self, name) : i <= j].template>>]
        ELSE IF ~load.ok
        THEN [self |-> room, panicked |-> FALSE, ret |-> <<"None">>]
        ELSE [self |-> [room EXCEPT !.templates =
                            Append(@, [name |-> name, template |-> load.template])],
              panicked |-> FALSE, ret |-> <<"Some", load.template>>]

\* TemplateBuf::get.  self.templates[0] of an empty Vec panics.
TemplateBuf_get(self, name, load) ==
    IF found(self, name) # {}
    THEN [self |-> self, panicked |-> FALSE,
          ret |-> <<"Some", self.templates[CHOOSE i \in found(self, name) :
                                \A j \in found(self, name) : i <= j].template>>]
    ELSE IF ~load.ok
    THEN [self |-> self, panicked |-> FALSE, ret |-> <<"None">>]
    ELSE IF self.max_loaded = loaded(self)
    THEN IF loaded(self) = 0
         THEN [self |-> self, panicked |-> TRUE, ret |-> <<"None">>]
         ELSE [self |-> [self EXCEPT !.templates[1] =
                            [name |-> name, template |-> load.template]],
               panicked |-> FALSE, ret |-> <<"Some", load.template>>]
    ELSE [self |-> [self EXCEPT !.templates =
                        Append(@, [name |-> name, template |-> load.template])],
          panicked |-> FALSE, ret |-> <<"Some", load.template>>]

\* TemplateBuf::unload
unload(self, name) ==
    IF found(self, name) = {} THEN self
    ELSE [self EXCEPT !.templates =
            swap_remove(@, CHOOSE i \in found(self, name) :
                                \A j \in found(self, name) : i <= j)]

\* The history after a call: the names still held keep their order and the
\* names the call loaded follow them.
RECURSIVE names_in(_, _)
names_in(order, keep) ==
    IF order = << >> THEN << >>
    ELSE IF Head(order) \in keep
         THEN <<Head(order)>> \o names_in(Tail(order), keep)
         ELSE names_in(Tail(order), keep)

held_after(self, before) ==
    LET names == { self.templates[i].name : i \in 1..loaded(self) }
        old == names_in(before, names)
        fresh == names \ { old[i] : i \in 1..Len(old) }
    IN  [self EXCEPT !.held =
            IF fresh = {} THEN old ELSE Append(old, CHOOSE n \in fresh : TRUE)]

(***************************************************************************)
(* SpecBuf: a TemplateBuf made by new(m), m in 0..MaxLoaded, under get,    *)
(* unload and set_max_loaded; SpecGets: the same under get alone.  A       *)
(* panic ends the run.                                                     *)
(***************************************************************************)
InitBuf ==
    /\ ship_template = NoTemplate
    /\ buf \in { TemplateBuf_new(m) : m \in 0..MaxLoaded }
    /\ ship = NoShip
    /\ group = NoGroup
    /\ pool = << >>
    /\ fleet = << >>
    /\ repeated = NoRepeated
    /\ last = [op |-> "new", panicked |-> FALSE]

BufGet ==
    \E name \in Names, load \in LoadResults :
        /\ ~last.panicked
        /\ buf' = held_after(TemplateBuf_get(buf, name, load).self, buf.held)
        /\ last' = [op |-> "get", name |-> name, pre |-> buf,
                    miss |-> found(buf, name) = {}, load |-> load,
                    ret |-> TemplateBuf_get(buf, name, load).ret,
                    panicked |-> TemplateBuf_get(buf, name, load).panicked]
        /\ UNCHANGED <<ship, group, pool, fleet, repeated, ship_template>>

BufUnload ==
    \E name \in Names :
        /\ ~last.panicked
        /\ buf' = held_after(unload(buf, name), buf.held)
        /\ last' = [op |-> "unload", name |-> name, pre |-> buf,
                    panicked |-> FALSE]
        /\ UNCHANGED <<ship, group, pool, fleet, repeated, ship_template>>

BufSetMaxLoaded ==
    \E max_loaded \in 0..MaxLoaded :
        /\ ~last.panicked
        /\ buf' = held_after(set_max_loaded(buf, max_loaded), buf.held)
        /\ last' = [op |-> "set_max_loaded", max_loaded |-> max_loaded,
                    pre |-> buf, panicked |-> FALSE]
        /\ UNCHANGED <<ship, group, pool, fleet, repeated, ship_template>>

NextBuf == BufGet \/ BufUnload \/ BufSetMaxLoaded

SpecBuf == InitBuf /\ [][NextBuf]_vars

NextGets == BufGet

SpecGets == InitBuf /\ [][NextGets]_vars

(***************************************************************************)
(* DistinctWeapon (weapons/distinct_weapon.rs) and ReducedWeapon           *)
(* (weapons/reduced_weapon.rs).  The fields of a DistinctWeapon are        *)
(* public, so a Vec handed to ReducedWeapon::new can hold any values.      *)
(***************************************************************************)
MaxWeapons == 3

\* DistinctWeapon::from_parts
DistinctWeapon_from_parts(target_size, damage_per_attack, simultainious_attacks) ==
    [target_size |-> target_size, damage_per_attack |-> damage_per_attack,
     simultainious_attacks |-> simultainious_attacks]

\* DistinctWeapon::new
DistinctWeapon_new(target_size, damage_per_attack, simultainious_attacks) ==
    IF damage_per_attack = 0 THEN [ok |-> FALSE, err |-> "DamageError"]
    ELSE IF simultainious_attacks = 0 THEN [ok |-> FALSE, err |-> "AttacksError"]
    ELSE [ok |-> TRUE,
          val |-> DistinctWeapon_from_parts(target_size, damage_per_attack,
                                            simultainious_attacks)]

\* DistinctWeapon::same_target
DistinctWeapon_same_target(left, right) == left.target_size = right.target_size

\* ReducedWeapon::new: the loops over i in 0..len and j in (i + 1)..len, at
\* the pair (i, j), counted from 1 here.
RECURSIVE ReducedWeapon_new_loop(_, _, _)
ReducedWeapon_new_loop(weapons, i, j) ==
    IF i > Len(weapons) THEN [ok |-> TRUE, val |-> weapons]
    ELSE IF j > Len(weapons) THEN ReducedWeapon_new_loop(weapons, i + 1, i + 2)
    ELSE IF DistinctWeapon_same_target(weapons[i], weapons[j])
    THEN [ok |-> FALSE, err |-> "TargetError"]
    ELSE IF weapons[j].damage_per_attack = 0
    THEN [ok |-> FALSE, err |-> "DamageError"]
    ELSE IF weapons[j].simultainious_attacks = 0
    THEN [ok |-> FALSE, err |-> "AttacksError"]
    ELSE ReducedWeapon_new_loop(weapons, i, j + 1)

\* ReducedWeapon::new
ReducedWeapon_new(weapons) == ReducedWeapon_new_loop(weapons, 1, 2)

(***************************************************************************)
(* SpecWeapons: the two constructors applied to every input.               *)
(***************************************************************************)
WeaponValues ==
    { DistinctWeapon_from_parts(t, d, a) : t \in 0..1, d \in 0..1, a \in 0..1 }

WeaponLists == UNION { ListsOfLength(WeaponValues, n) : n \in 0..MaxWeapons }

InitWeapons ==
    /\ ship_template = NoTemplate
    /\ last = NoCall
    /\ ship = NoShip
    /\ group = NoGroup
    /\ pool = << >>
    /\ fleet = << >>
    /\ repeated = NoRepeated
    /\ buf = NoBuf

ReducedWeaponNew ==
    \E weapons \in WeaponLists :
        /\ last' = [op |-> "ReducedWeapon::new", weapons |-> weapons,
                    ret |-> ReducedWeapon_new(weapons)]
        /\ UNCHANGED <<ship, group, pool, fleet, repeated, buf, ship_template>>

DistinctWeaponNew ==
    \E w \in WeaponValues :
        /\ last' = [op |-> "DistinctWeapon::new", weapon |-> w,
                    ret |-> DistinctWeapon_new(w.target_size, w.damage_per_attack,
                                               w.simultainious_attacks)]
        /\ UNCHANGED <<ship, group, pool, fleet, repeated, buf, ship_template>>

NextWeapons == ReducedWeaponNew \/ DistinctWeaponNew

SpecWeapons == InitWeapons /\ [][NextWeapons]_vars

(***************************************************************************)
(* SpecDescriptors: a ReducedAttacks built and grown from descriptors      *)
(* whose damage_per_attack may be 0 (Attack::new takes any value), and     *)
(* resolved against a Ship and a ReducedShip.  A panic ends the run.       *)
(***************************************************************************)
Descriptors ==
    { TargetedAttack_new(Attack_new(p, d), t) :
        p \in {1, MaxParallel}, d \in {0, MaxPerAttack}, t \in {1, MaxTarget} }

DescriptorLists == UNION { ListsOfLength(Descriptors, n) : n \in 0..2 }

InitDescriptors ==
    /\ ship_template = NoTemplate
    /\ pool = ReducedAttacks_new(<< >>)
    /\ ship = NoShip
    /\ group = NoGroup
    /\ fleet = << >>
    /\ repeated = NoRepeated
    /\ buf = NoBuf
    /\ last = [op |-> "none", panicked |-> FALSE]

DescriptorsNew ==
    \E attacks \in DescriptorLists :
        /\ ~last.panicked
        /\ pool' = ReducedAttacks_new(attacks)
        /\ last' = [op |-> "new", panicked |-> FALSE]
        /\ UNCHANGED <<ship, group, fleet, repeated, buf, ship_template>>

DescriptorsAddAttack ==
    \E attack \in Descriptors :
        /\ ~last.panicked
        /\ PoolFits(add_attack(pool, attack))
        /\ pool' = add_attack(pool, attack)
        /\ last' = [op |-> "add_attack", panicked |-> FALSE]
        /\ UNCHANGED <<ship, group, fleet, repeated, buf, ship_template>>

DescriptorsAddAttacks ==
    \E attacks \in DescriptorLists :
        /\ ~last.panicked
        /\ PoolFits(add_attacks(pool, attacks))
        /\ pool' = add_attacks(pool, attacks)
        /\ last' = [op |-> "add_attacks", panicked |-> FALSE]
        /\ UNCHANGED <<ship, group, fleet, repeated, buf, ship_template>>

DescriptorsShipResolveAttacks ==
    \E target \in PoolTargets :
        /\ ~last.panicked
        /\ pool' = Ship_resolve_attacks(target, pool).attacks
        /\ last' = [op |-> "resolve_attacks", pre |-> pool,
                    target |-> Ship_resolve_attacks(target, pool).self,
                    panicked |-> Ship_resolve_attacks(target, pool).panicked]
        /\ UNCHANGED <<ship, group, fleet, repeated, buf, ship_template>>

DescriptorsGroupResolveAttacks ==
    \E target \in PoolGroupTargets :
        /\ ~last.panicked
        /\ pool' = ReducedShip_resolve_attacks(target, pool).attacks
        /\ last' = [op |-> "resolve_attacks", pre |-> pool,
                    target |-> ReducedShip_resolve_attacks(target, pool).self,
                    panicked |-> ReducedShip_resolve_attacks(target, pool).panicked]
        /\ UNCHANGED <<ship, group, fleet, repeated, buf, ship_template>>

NextDescriptors ==
    \/ DescriptorsNew
    \/ DescriptorsAddAttack
    \/ DescriptorsAddAttacks
    \/ DescriptorsShipResolveAttacks
    \/ DescriptorsGroupResolveAttacks

SpecDescriptors == InitDescriptors /\ [][NextDescriptors]_vars

(***************************************************************************)
(* SpecTemplate: a ShipTemplate made by ShipTemplate::new, changed by its  *)
(* four setters, or read from a template record by load_template, whose    *)
(* toml::from_str fills the fields through the derived Deserialize.        *)
(***************************************************************************)
\* ShipTemplate::from_parts
ShipTemplate_from_parts(ship_size_class, fuel_capacity, fuel_use, max_hull, shield_capacity, shield_recovery, cargo_capacity, smallest_target, attack_damage) ==
    [ship_size_class |-> ship_size_class,
     fuel_capacity |-> fuel_capacity,
     fuel_use |-> fuel_use,
     max_hull |-> max_hull,
     shield_capacity |-> shield_capacity,
     shield_recovery |-> shield_recovery,
     cargo_capacity |-> cargo_capacity,
     smallest_target |-> smallest_target,
     attack_damage |-> attack_damage]

\* ShipTemplate::set_fuel_capacity
set_fuel_capacity(self, val) ==
    IF self.fuel_use > val THEN [self |-> self, ret |-> "FuelError"]
    ELSE [self |-> [self EXCEPT !.fuel_capacity = val], ret |-> "Ok"]

\* ShipTemplate::set_fuel_use
set_fuel_use(self, val) ==
    IF val > self.fuel_capacity THEN [self |-> self, ret |-> "FuelError"]
    ELSE [self |-> [self EXCEPT !.fuel_use = val], ret |-> "Ok"]

\* ShipTemplate::set_shield_capacity
set_shield_capacity(self, val) ==
    IF self.shield_recovery > val THEN [self |-> self, ret |-> "ShieldError"]
    ELSE [self |-> [self EXCEPT !.shield_capacity = val], ret |-> "Ok"]

\* ShipTemplate::set_shield_recovery
set_shield_recovery(self, val) ==
    IF val > self.shield_capacity THEN [self |-> self, ret |-> "ShieldError"]
    ELSE [self |-> [self EXCEPT !.shield_recovery = val], ret |-> "Ok"]

\* The files load_template is pointed at: one that cannot be read, one that
\* does not parse, or a record giving every field of a ShipTemplate.
TemplateFiles ==
    { [kind |-> "unreadable"], [kind |-> "unparsable"] }
    \cup { [kind |-> "record",
            fields |-> ShipTemplate_from_parts(1, fc, fu, MaxHull, sc, sr, 0, 1, 1)] :
            fc \in OpsFuel, fu \in OpsFuel, sc \in 0..MaxShield, sr \in 0..MaxShield }

\* load_template: File::open and read_to_string, then toml::from_str.
load_template(file) ==
    IF file.kind = "unreadable" THEN [ok |-> FALSE, err |-> "Ok(io::Error)"]
    ELSE IF file.kind = "unparsable" THEN [ok |-> FALSE, err |-> "Err(toml::de::Error)"]
    ELSE [ok |-> TRUE, val |-> file.fields]

InitTemplate ==
    /\ ship_template = NoTemplate
    /\ ship = NoShip
    /\ group = NoGroup
    /\ pool = << >>
    /\ fleet = << >>
    /\ repeated = NoRepeated
    /\ buf = NoBuf
    /\ last = NoCall

TemplateNew ==
    \E fc \in OpsFuel, fu \in OpsFuel, sc \in 0..MaxShield, sr \in 0..MaxShield :
        LET r == ShipTemplate_new(1, fc, fu, MaxHull, sc, sr, 0, 1, 1)
        IN  /\ ship_template' = IF r.ok THEN r.val ELSE ship_template
            /\ last' = [op |-> "new", fuel_capacity |-> fc, fuel_use |-> fu,
                        shield_capacity |-> sc, shield_recovery |-> sr,
                        ret |-> r]
            /\ UNCHANGED <<ship, group, pool, fleet, repeated, buf>>

TemplateSetFuelCapacity ==
    \E val \in OpsFuel :
        /\ ship_template' = set_fuel_capacity(ship_template, val).self
        /\ last' = [op |-> "set", val |-> val, pre |-> ship_template,
                    ret |-> set_fuel_capacity(ship_template, val).ret]
        /\ UNCHANGED <<ship, group, pool, fleet, repeated, buf>>

TemplateSetFuelUse ==
    \E val \in OpsFuel :
        /\ ship_template' = set_fuel_use(ship_template, val).self
        /\ last' = [op |-> "set", val |-> val, pre |-> ship_template,
                    ret |-> set_fuel_use(ship_template, val).ret]
        /\ UNCHANGED <<ship, group, pool, fleet, repeated, buf>>

TemplateSetShieldCapacity ==
    \E val \in 0..MaxShield :
        /\ ship_template' = set_shield_capacity(ship_template, val).self
        /\ last' = [op |-> "set", val |-> val, pre |-> ship_template,
                    ret |-> set_shield_capacity(ship_template, val).ret]
        /\ UNCHANGED <<ship, group, pool, fleet, repeated, buf>>

TemplateSetShieldRecovery ==
    \E val \in 0..MaxShield :
        /\ ship_template' = set_shield_recovery(ship_template, val).self
        /\ last' = [op |-> "set", val |-> val, pre |-> ship_template,
                    ret |-> set_shield_recovery(ship_template, val).ret]
        /\ UNCHANGED <<ship, group, pool, fleet, repeated, buf>>

TemplateLoad ==
    \E file \in TemplateFiles :
        /\ ship_template' = IF load_template(file).ok
                            THEN load_template(file).val ELSE ship_template
        /\ last' = [op |-> "load_template", file |-> file,
                    ret |-> load_template(file)]
        /\ UNCHANGED <<ship, group, pool, fleet, repeated, buf>>

NextTemplate ==
    \/ TemplateNew
    \/ TemplateSetFuelCapacity
    \/ TemplateSetFuelUse
    \/ TemplateSetShieldCapacity
    \/ TemplateSetShieldRecovery
    \/ TemplateLoad

SpecTemplate == InitTemplate /\ [][NextTemplate]_vars

(***************************************************************************)
(* ShipGroup::new and ShipGroup::add_ships (fleets.rs), indexes counted    *)
(* from 1.  SpecGroup holds the one ShipGroup in `fleet`, and in `last`    *)
(* the sum of the counters of every RepeatedShip handed in so far.         *)
(***************************************************************************)
\* The inner loop of ShipGroup::new, after ships.swap_remove(compare) has
\* given `temp` and left `removed`: ships[index].merge(temp).
RECURSIVE ShipGroup_new_compare(_, _, _, _)
ShipGroup_new_merge(removed, temp, index, compare, overflow_checks) ==
    IF RepeatedShip_merge(removed[index], temp, overflow_checks).panicked
    THEN [ships |-> removed, panicked |-> TRUE]
    ELSE ShipGroup_new_compare(
            [removed EXCEPT ![index] =
                RepeatedShip_merge(removed[index], temp, overflow_checks).self],
            index, compare, overflow_checks)

\* The inner loop of ShipGroup::new at `compare`.
ShipGroup_new_compare(ships, index, compare, overflow_checks) ==
    IF compare > Len(ships) THEN [ships |-> ships, panicked |-> FALSE]
    ELSE IF same_template(ships[index], ships[compare])
    THEN ShipGroup_new_merge(swap_remove(ships, compare), ships[compare],
                             index, compare, overflow_checks)
    ELSE ShipGroup_new_compare(ships, index, compare + 1, overflow_checks)

\* The outer loop of ShipGroup::new at `index`.
RECURSIVE ShipGroup_new_loop(_, _, _)
ShipGroup_new_next(compared, index, overflow_checks) ==
    IF compared.panicked THEN compared
    ELSE ShipGroup_new_loop(compared.ships, index + 1, overflow_checks)

ShipGroup_new_loop(ships, index, overflow_checks) ==
    IF index > Len(ships) THEN [ships |-> ships, panicked |-> FALSE]
    ELSE IF ships[index].counter = 0
    THEN ShipGroup_new_loop(swap_remove(ships, index), index, overflow_checks)
    ELSE ShipGroup_new_next(
            ShipGroup_new_compare(ships, index, index + 1, overflow_checks),
            index, overflow_checks)

\* ShipGroup::new
ShipGroup_new(ships, overflow_checks) == ShipGroup_new_loop(ships, 1, overflow_checks)

\* add_ships with every `ships` pushed, merged or not.
add_ships_always_pushing(self, ships, overflow_checks) ==
    [ships |-> Append(self, ships), panicked |-> FALSE]

\* ShipGroup::add_ships
add_ships(self, ships, overflow_checks) ==
    LET same == { i \in 1..Len(self) : same_template(ships, self[i]) }
    IN  IF ships.counter = 0 THEN [ships |-> self, panicked |-> FALSE]
        ELSE IF same # {}
        THEN LET item == CHOOSE i \in same : \A j \in same : i <= j
             IN  [ships |-> [self EXCEPT ![item] =
                                RepeatedShip_merge(self[item], ships,
                                                   overflow_checks).self],
                  panicked |-> RepeatedShip_merge(self[item], ships,
                                                  overflow_checks).panicked]
        ELSE [ships |-> Append(self, ships), panicked |-> FALSE]

\* The templates of the group's ships, and the RepeatedShips handed to it:
\* no, one or MaxCount new ships of a template.
GroupTemplates == Templates \cup { ShipTemplate_new(1, 0, 0, 1, 0, 0, 0, 1, 1).val }

GroupShips ==
    { RepeatedShip_new(Ship_from(t), n) : t \in GroupTemplates, n \in {0, 1, MaxCount} }

GroupShipLists == UNION { ListsOfLength(GroupShips, n) : n \in 0..(MaxList + 1) }

RECURSIVE CounterSum(_)
CounterSum(ships) ==
    IF ships = << >> THEN 0 ELSE Head(ships).counter + CounterSum(Tail(ships))

InitGroup ==
    /\ ship_template = NoTemplate
    /\ fleet = << >>
    /\ ship = NoShip
    /\ group = NoGroup
    /\ pool = << >>
    /\ repeated = NoRepeated
    /\ buf = NoBuf
    /\ last = NoCall

GroupNew ==
    \E ships \in GroupShipLists, overflow_checks \in BOOLEAN :
        /\ last.op = "none"
        /\ fleet' = <<ShipGroup_new(ships, overflow_checks).ships>>
        /\ last' = [op |-> "new", ships |-> ships, total |-> CounterSum(ships),
                    panicked |-> ShipGroup_new(ships, overflow_checks).panicked]
        /\ UNCHANGED <<ship, group, pool, repeated, buf, ship_template>>

GroupAddShips ==
    \E ships \in GroupShips, overflow_checks \in BOOLEAN :
        /\ last.op # "none"
        /\ ~last.panicked
        /\ last.total + ships.counter <= 3 * MaxCount
        /\ fleet' = <<add_ships(fleet[1], ships, overflow_checks).ships>>
        /\ last' = [op |-> "add_ships", ships |-> ships, pre |-> fleet[1],
                    total |-> last.total + ships.counter,
                    panicked |-> add_ships(fleet[1], ships, overflow_checks).panicked]
        /\ UNCHANGED <<ship, group, pool, repeated, buf, ship_template>>

NextGroup == GroupNew \/ GroupAddShips

SpecGroup == InitGroup /\ [][NextGroup]_vars

(***************************************************************************)
(* SpecLive: Spec begun from the groups ReducedShip::new makes of at least *)
(* one ship whose representative has hull left.                            *)
(***************************************************************************)
InitLive ==
    /\ ship_template = NoTemplate
    /\ group \in { ReducedShip_new(s, n) :
                    s \in { q \in Ships : q.hull_points >= 1 }, n \in 1..MaxCount }
    /\ ship = NoShip
    /\ pool = << >>
    /\ fleet = << >>
    /\ repeated = NoRepeated
    /\ buf = NoBuf
    /\ last = NoCall

SpecLive == InitLive /\ [][Next]_vars

(***************************************************************************)
(* The claims about ReducedShip::resolve_damage, under Spec.               *)
(***************************************************************************)
\* The hull (k = 1) or shield (k = 2) points the simulated units that
\* survived were left with, summed.
RECURSIVE SurvivorPoints(_, _)
SurvivorPoints(simulations, k) ==
    IF simulations = << >> THEN 0
    ELSE (IF Head(simulations)[1] # 0 THEN Head(simulations)[k] ELSE 0)
            + SurvivorPoints(Tail(simulations), k)

\* The exact hull and shield totals of the units alive after the last
\* resolve_damage: every processed survivor's simulated points, plus the points
\* before the call of every unit the loop did not reach.
TrueHullTotal ==
    SurvivorPoints(last.simulations, 1)
        + last.pre.average_ship.hull_points * (last.pre.number - Len(last.simulations))
TrueShieldTotal ==
    SurvivorPoints(last.simulations, 2)
        + last.pre.average_ship.shield_points * (last.pre.number - Len(last.simulations))

\* C6 (as claimed): ReducedShip::resolve_damage returns a nonzero leftover only
\* if the group's count is 0 afterwards.
C6_LeftoverOnlyWhenWipedOut ==
    last.op = "resolve_damage" => (last.ret # 0 => group.number = 0)

\* C7: after resolve_damage on a group that still has live members, the
\* representative's hull times the count is at most the exact hull total T of
\* the surviving units and greater than T - count; the same for the shield.
C7_AveragingTolerance ==
    (last.op = "resolve_damage" /\ group.number > 0) =>
        /\ group.average_ship.hull_points * group.number <= TrueHullTotal
        /\ group.average_ship.hull_points * group.number > TrueHullTotal - group.number
        /\ group.average_ship.shield_points * group.number <= TrueShieldTotal
        /\ group.average_ship.shield_points * group.number > TrueShieldTotal - group.number

\* C7's case: some units were processed and survived, some were not reached,
\* and the division truncated.
C7_Witness ==
    /\ last.op = "resolve_damage"
    /\ group.number > 1
    /\ Len(last.simulations) > 0
    /\ Len(last.simulations) < last.pre.number
    /\ group.average_ship.hull_points * group.number < TrueHullTotal
    /\ group.average_ship.hull_points < last.pre.average_ship.hull_points

\* C8: no call of resolve_damage, resolve_attacks or regenerate_shields raises
\* the group's count, and the count gets smaller only in a call in which some
\* processed unit's simulated hull was 0.
C8_CountNeverRises ==
    [][ /\ group'.number <= group.number
        /\ group'.number < group.number =>
            \E i \in 1..Len(last'.simulations) : last'.simulations[i][1] = 0 ]_vars

\* C8's case: a resolve_damage that killed some units of the group, not all.
C8_Witness ==
    /\ last.op = "resolve_damage"
    /\ group.number < last.pre.number
    /\ group.number > 0

(***************************************************************************)
(* The claims about Ship::resolve_damage, under SpecShip.                  *)
(***************************************************************************)
\* C9 (as claimed): for damage d <= h + s, after Ship::resolve_damage(d) the
\* sum hull + shield + returned leftover equals h + s.
C9_SumWithLeftoverKept ==
    (last.op = "resolve_damage"
        /\ last.damage <= last.pre.hull_points + last.pre.shield_points) =>
        ship.hull_points + ship.shield_points + last.ret
            = last.pre.hull_points + last.pre.shield_points

\* C9 (amended): for damage d <= h + s, Ship::resolve_damage(d) returns 0 and
\* leaves hull + shield equal to h + s - d.
C9_DamageAbsorbed ==
    (last.op = "resolve_damage"
        /\ last.damage <= last.pre.hull_points + last.pre.shield_points) =>
        /\ last.ret = 0
        /\ ship.hull_points + ship.shield_points
            = last.pre.hull_points + last.pre.shield_points - last.damage

\* C9's case: damage that goes through the shields into the hull and kills.
C9_Witness ==
    /\ last.op = "resolve_damage"
    /\ last.pre.shield_points > 0
    /\ last.pre.hull_points > 0
    /\ last.damage = last.pre.hull_points + last.pre.shield_points
    /\ ship.hull_points = 0

\* C10: for damage d > h + s, Ship::resolve_damage(d) returns d - (h + s) and
\* leaves hull = 0 and shield = 0; and whatever the damage, the hull loses
\* points only once the shields are exhausted: it loses what the shields did
\* not take, up to all of it.
C10_Overkill ==
    last.op = "resolve_damage" =>
        /\ last.damage > last.pre.hull_points + last.pre.shield_points =>
            /\ last.ret = last.damage - (last.pre.hull_points + last.pre.shield_points)
            /\ ship.hull_points = 0
            /\ ship.shield_points = 0
        /\ ship.hull_points < last.pre.hull_points =>
            /\ ship.shield_points = 0
            /\ last.damage > last.pre.shield_points
            /\ last.pre.hull_points - ship.hull_points
                = Min(last.pre.hull_points, last.damage - last.pre.shield_points)

\* C10's case: a shielded, live ship dealt more than its hull and shield.
C10_Witness ==
    /\ last.op = "resolve_damage"
    /\ last.pre.shield_points > 0
    /\ last.pre.hull_points > 0
    /\ last.damage > last.pre.hull_points + last.pre.shield_points
    /\ last.ret > 0

(***************************************************************************)
(* The scenario of ReducedShip::resolve_damage, under SpecScenario.        *)
(***************************************************************************)
\* The call of the scenario: resolve_damage(550) on 10 ships of hull 100 and
\* shield 0, of a template with max_hull 100 and shield_capacity 100.
ScenarioCall ==
    /\ last.op = "resolve_damage"
    /\ last.damage = 550
    /\ last.pre.number = 10
    /\ last.pre.average_ship.hull_points = 100
    /\ last.pre.average_ship.shield_points = 0
    /\ last.pre.average_ship.template.max_hull = 100
    /\ last.pre.average_ship.template.shield_capacity = 100

\* C1 (as claimed): the scenario leaves count = 5, hull = 90, shield = 0 and
\* returns 0.
C1_FiveDieOutright ==
    ScenarioCall =>
        /\ group.number = 5
        /\ group.average_ship.hull_points = 90
        /\ group.average_ship.shield_points = 0
        /\ last.ret = 0

\* C1 (amended): the scenario leaves count = 10, hull = 45, shield = 0 and
\* returns 0: each of the 10 ships is dealt 55 and none dies.
C1_EvenShares ==
    ScenarioCall =>
        /\ group.number = 10
        /\ group.average_ship.hull_points = 45
        /\ group.average_ship.shield_points = 0
        /\ last.ret = 0
        /\ last.simulations = [i \in 1..10 |-> <<45, 0, 0>>]

\* C1's case: the call of the scenario has been made.
C1_Witness == ScenarioCall /\ group.number > 0

(***************************************************************************)
(* The claims about Fleet::resolve_attacks, under SpecFleet.               *)
(***************************************************************************)
RECURSIVE GroupHealth(_)
GroupHealth(ships) ==
    IF ships = << >> THEN 0
    ELSE Head(ships).counter * (Head(ships).ship_average.hull_points
                                + Head(ships).ship_average.shield_points)
            + GroupHealth(Tail(ships))

RECURSIVE GroupCount(_)
GroupCount(ships) ==
    IF ships = << >> THEN 0 ELSE Head(ships).counter + GroupCount(Tail(ships))

RECURSIVE PoolDamage(_)
PoolDamage(items) ==
    IF items = << >> THEN 0 ELSE Head(items).damage + PoolDamage(Tail(items))

Max(a, b) == IF a > b THEN a ELSE b

\* The positions of the groups of a fleet that hold ships, in order.
RECURSIVE NonEmptyFrom(_, _)
NonEmptyFrom(groups, g) ==
    IF g > Len(groups) THEN << >>
    ELSE (IF groups[g] # << >> THEN <<g>> ELSE << >>) \o NonEmptyFrom(groups, g + 1)

\* C2 (as claimed): on a fleet of two groups, with attacks that can all target
\* both and whose total damage exceeds the front group's total hull and
\* shield, resolve_attacks leaves the front group dead and the back group's
\* total hull and shield lower by the damage the front group did not take, to
\* within one point a ship.
C2_FrontDiesBackTakesRest ==
    (/\ last.op = "resolve_attacks"
     /\ Len(last.pre) = 2
     /\ last.pre[1] # << >>
     /\ last.pre[2] # << >>
     /\ \A i \in 1..Len(last.attacks) : last.attacks[i].target_size = 1
     /\ PoolDamage(last.attacks) > GroupHealth(last.pre[1])) =>
        LET rest == PoolDamage(last.attacks) - GroupHealth(last.pre[1])
            expected == Max(0, GroupHealth(last.pre[2]) - rest)
        IN  /\ GroupCount(fleet[1]) = 0
            /\ GroupHealth(fleet[2]) <= expected
            /\ GroupHealth(fleet[2]) > expected - GroupCount(last.pre[2])

\* C3 (as claimed): resolve_attacks calls resolve_attacks on exactly the
\* non-empty groups, front to back; the first is given the attacks as passed,
\* every later one the attacks as the group before it left them; and the
\* empty groups stay empty.
C3_LaterGroupsGetWhatIsLeft ==
    last.op = "resolve_attacks" =>
        /\ [k \in 1..Len(last.visits) |-> last.visits[k].group]
            = NonEmptyFrom(last.pre, 1)
        /\ \A k \in 1..Len(last.visits) :
            last.visits[k].given
                = IF k = 1 THEN last.attacks ELSE last.visits[k - 1].left
        /\ \A g \in 1..Len(last.pre) : last.pre[g] = << >> => fleet[g] = << >>

(***************************************************************************)
(* The claims about ReducedAttacks::new, under SpecAttacks.                *)
(***************************************************************************)
\* The (smallest_target, damage_per_attack) of a descriptor.
Bucket(a) == <<a.smallest_target, a.attack.damage_per_attack>>

RECURSIVE BucketTotal(_, _)
BucketTotal(attacks, bucket) ==
    IF attacks = << >> THEN 0
    ELSE (IF Bucket(Head(attacks)) = bucket
          THEN Head(attacks).attack.parralel_attacks ELSE 0)
            + BucketTotal(Tail(attacks), bucket)

BucketLess(a, b) ==
    \/ a.smallest_target < b.smallest_target
    \/ /\ a.smallest_target = b.smallest_target
       /\ a.attack.damage_per_attack < b.attack.damage_per_attack

\* C4 (as claimed): ReducedAttacks::new(L) holds, for every (smallest_target,
\* damage_per_attack) of L, one entry, whose parralel_attacks is the sum over
\* the entries of L with that pair; it holds nothing else, and it ascends by
\* (smallest_target, damage_per_attack).
C4_NewSumsEachBucket ==
    last.op = "new" =>
        /\ \A i \in 1..Len(last.attacks) :
            \E j \in 1..Len(pool) :
                /\ Bucket(pool[j]) = Bucket(last.attacks[i])
                /\ pool[j].attack.parralel_attacks
                    = BucketTotal(last.attacks, Bucket(last.attacks[i]))
        /\ \A j \in 1..Len(pool) :
            \E i \in 1..Len(last.attacks) : Bucket(pool[j]) = Bucket(last.attacks[i])
        /\ \A j \in 1..(Len(pool) - 1) : BucketLess(pool[j], pool[j + 1])

\* The lists with the entries of l in another order.
Reorderings(l) ==
    { [i \in 1..Len(l) |-> l[f[i]]] :
        f \in { g \in [1..Len(l) -> 1..Len(l)] :
                    \A i, j \in 1..Len(l) : g[i] = g[j] => i = j } }

\* The lists with one entry of l split into two of the same smallest_target
\* and damage_per_attack whose parralel_attacks add up to the entry's.
Splits(l) ==
    UNION { { SubSeq(l, 1, i - 1)
                \o << [l[i] EXCEPT !.attack.parralel_attacks = a],
                      [l[i] EXCEPT !.attack.parralel_attacks = @ - a] >>
                \o SubSeq(l, i + 1, Len(l)) :
              a \in 1..(l[i].attack.parralel_attacks - 1) } :
            i \in 1..Len(l) }

\* C5 (as claimed): ReducedAttacks::new yields the same pool for a list, for
\* the list in any other order, and for the list with one entry split in two.
C5_NewIgnoresOrderAndSplits ==
    last.op = "new" =>
        \A l \in Reorderings(last.attacks) \cup Splits(last.attacks) :
            ReducedAttacks_new(l) = pool

(***************************************************************************)
(* The claims about RepeatedShip::merge, under SpecMerge.                  *)
(***************************************************************************)
\* The count-weighted average of a (count_a times) and b (count_b times),
\* truncated once.
WeightedAverage(a, count_a, b, count_b) ==
    (a * count_a + b * count_b) \div (count_a + count_b)

\* C11 (as claimed): merging a RepeatedShip into another of the same template
\* sets fuel, hull and shield of the representative to the count-weighted
\* average of the two, truncated once, and the counter to the sum of the two.
C11_MergeWeightedAverage ==
    (last.op = "merge" /\ last.pre.counter + last.other.counter > 0) =>
        /\ ~last.panicked
        /\ repeated.counter = last.pre.counter + last.other.counter
        /\ repeated.ship_average.fuel_units
            = WeightedAverage(last.pre.ship_average.fuel_units, last.pre.counter,
                              last.other.ship_average.fuel_units, last.other.counter)
        /\ repeated.ship_average.hull_points
            = WeightedAverage(last.pre.ship_average.hull_points, last.pre.counter,
                              last.other.ship_average.hull_points, last.other.counter)
        /\ repeated.ship_average.shield_points
            = WeightedAverage(last.pre.ship_average.shield_points, last.pre.counter,
                              last.other.ship_average.shield_points, last.other.counter)

(***************************************************************************)
(* The claims about Ship and its capacities, under SpecShipOps.            *)
(***************************************************************************)
\* The ship is within the capacities of its template.
WithinCapacities(s) ==
    /\ s.fuel_units <= s.template.fuel_capacity
    /\ s.hull_points <= s.template.max_hull
    /\ s.shield_points <= s.template.shield_capacity

\* C12: after any sequence of constructions, setters, set_template,
\* regenerate_shields, resolve_damage and resolve_attacks, a Ship, and the
\* representative of a ReducedShip under resolve_damage, resolve_attacks and
\* regenerate_shields, has fuel_units <= fuel_capacity, hull_points <=
\* max_hull and shield_points <= shield_capacity of its current template.
C12_WithinCapacities ==
    /\ WithinCapacities(ship)
    /\ WithinCapacities(group.average_ship)

\* C12's case: shields regenerated where the sum of the shield points and the
\* recovery is more than the capacity, and more than a UInt holds.
C12_Witness ==
    /\ group = NoGroup
    /\ last.op = "regenerate_shields"
    /\ last.pre.shield_points + last.pre.template.shield_recovery > UIntMax
    /\ WithinCapacities(ship)

\* The ship as the call asks for it would exceed a capacity of the template
\* it would have.
WouldExceed ==
    CASE last.op = "set_fuel_units" -> last.val > last.pre.template.fuel_capacity
      [] last.op = "set_hull_points" -> last.val > last.pre.template.max_hull
      [] last.op = "set_shield_points" -> last.val > last.pre.template.shield_capacity
      [] last.op = "set_template" ->
            \/ last.pre.fuel_units > last.val.fuel_capacity
            \/ last.pre.hull_points > last.val.max_hull
            \/ last.pre.shield_points > last.val.shield_capacity

\* C13: set_fuel_units, set_hull_points, set_shield_points and set_template
\* return a capacity error whenever the resulting ship would exceed a capacity
\* of the applicable template, and the ship is then as it was before the
\* call; set_template either adopts the new template with fuel, hull and
\* shield kept, or changes nothing.
C13_SettersRejectAndKeep ==
    (group = NoGroup /\ last.op \in {"set_fuel_units", "set_hull_points",
                                     "set_shield_points", "set_template"}) =>
        /\ WouldExceed =>
            /\ last.ret \in {"FuelError", "HullError", "ShieldError"}
            /\ ship = last.pre
        /\ last.op = "set_fuel_units" /\ WouldExceed => last.ret = "FuelError"
        /\ last.op = "set_hull_points" /\ WouldExceed => last.ret = "HullError"
        /\ last.op = "set_shield_points" /\ WouldExceed => last.ret = "ShieldError"
        /\ last.op = "set_template" =>
            \/ ship = [last.pre EXCEPT !.template = last.val] /\ last.ret = "Ok"
            \/ ship = last.pre /\ last.ret # "Ok"

\* C13's case: a template refused for its shield capacity alone.
C13_Witness ==
    /\ group = NoGroup
    /\ last.op = "set_template"
    /\ last.ret = "ShieldError"
    /\ last.val # last.pre.template
    /\ ship = last.pre

(***************************************************************************)
(* The claims about resolve_attacks, under SpecShipOps.                    *)
(***************************************************************************)
\* What the claim says of Ship::resolve_attacks, from entry i of the pool on:
\* an entry is visited when the target is alive and the entry's
\* smallest_target is at most the target's size class; a visited entry is
\* resolved as damage and keeps floor(left over / damage_per_attack) attacks.
RECURSIVE ShipVisits(_, _, _)
ShipVisits(target, attacks, i) ==
    IF i > Len(attacks) THEN [target |-> target, attacks |-> attacks]
    ELSE IF /\ target.hull_points # 0
            /\ attacks[i].smallest_target <= target.template.ship_size_class
    THEN ShipVisits(
            Ship_resolve_damage(target,
                attacks[i].attack.parralel_attacks
                    * attacks[i].attack.damage_per_attack).self,
            [attacks EXCEPT ![i].attack.parralel_attacks =
                Ship_resolve_damage(target,
                    attacks[i].attack.parralel_attacks
                        * attacks[i].attack.damage_per_attack).ret
                    \div attacks[i].attack.damage_per_attack],
            i + 1)
    ELSE ShipVisits(target, attacks, i + 1)

\* The same of ReducedShip::resolve_attacks.
RECURSIVE ReducedShipVisits(_, _, _)
ReducedShipVisits(target, attacks, i) ==
    IF i > Len(attacks) THEN [target |-> target, attacks |-> attacks]
    ELSE IF /\ target.number # 0
            /\ attacks[i].smallest_target <= target.average_ship.template.ship_size_class
    THEN ReducedShipVisits(
            ReducedShip_resolve_damage(target,
                attacks[i].attack.parralel_attacks
                    * attacks[i].attack.damage_per_attack).self,
            [attacks EXCEPT ![i].attack.parralel_attacks =
                ReducedShip_resolve_damage(target,
                    attacks[i].attack.parralel_attacks
                        * attacks[i].attack.damage_per_attack).ret
                    \div attacks[i].attack.damage_per_attack],
            i + 1)
    ELSE ReducedShipVisits(target, attacks, i + 1)

\* C14: resolve_attacks of a Ship or a ReducedShip visits the pool entries
\* whose smallest_target is at most the target's size class, in pool order,
\* while the target is alive; every visited entry's parralel_attacks becomes
\* floor(left over / damage_per_attack), the left over being what
\* resolve_damage returned for parralel_attacks x damage_per_attack; no
\* entry is visited once the target is dead, and no other entry changes.
C14_VisitsInOrderWhileAlive ==
    (last.op = "resolve_attacks" /\ ~last.panicked) =>
        IF group = NoGroup
        THEN /\ ship = ShipVisits(last.pre, last.attacks, 1).target
             /\ last.left = ShipVisits(last.pre, last.attacks, 1).attacks
        ELSE /\ group = ReducedShipVisits(last.pre, last.attacks, 1).target
             /\ last.left = ReducedShipVisits(last.pre, last.attacks, 1).attacks

\* C14's case: a pool of two entries against a live Ship; the first is used
\* up and leaves it alive, the second kills it and keeps fewer attacks.
C14_Witness ==
    /\ group = NoGroup
    /\ last.op = "resolve_attacks"
    /\ ~last.panicked
    /\ Len(last.attacks) = 2
    /\ last.pre.hull_points # 0
    /\ ship.hull_points = 0
    /\ last.left[1].attack.parralel_attacks = 0
    /\ last.left[2].attack.parralel_attacks < last.attacks[2].attack.parralel_attacks


(***************************************************************************)
(* The claim about the order of a ReducedAttacks, under SpecPool.          *)
(***************************************************************************)
\* The pool is strictly ascending by (smallest_target, damage_per_attack).
StrictlyAscending(attacks) ==
    \A i \in 1..(Len(attacks) - 1) : BucketLess(attacks[i], attacks[i + 1])

\* The positions of `attacks` that hold the bucket of `attack`.
SameBucketAt(attacks, attack) ==
    { i \in 1..Len(attacks) : Bucket(attacks[i]) = Bucket(attack) }

\* C15: after any sequence of new, add_attack, add_attacks,
\* clear_used_attacks and resolve_attacks the pool is strictly ascending by
\* (smallest_target, damage_per_attack); an add_attack on a bucket the pool
\* holds adds its parralel_attacks to that entry and changes no other entry,
\* and otherwise inserts the one new entry.
C15_SortedBuckets ==
    /\ StrictlyAscending(pool)
    /\ last.op = "add_attack" =>
        LET at == SameBucketAt(last.pre, last.attack)
        IN  IF at # {}
            THEN /\ Len(pool) = Len(last.pre)
                 /\ \A i \in 1..Len(pool) :
                        pool[i] =
                            IF i \in at
                            THEN [last.pre[i] EXCEPT !.attack.parralel_attacks =
                                    @ + last.attack.attack.parralel_attacks]
                            ELSE last.pre[i]
            ELSE /\ Len(pool) = Len(last.pre) + 1
                 /\ \E k \in 1..Len(pool) :
                        /\ pool[k] = last.attack
                        /\ SubSeq(pool, 1, k - 1) = SubSeq(last.pre, 1, k - 1)
                        /\ SubSeq(pool, k + 1, Len(pool)) =
                                SubSeq(last.pre, k, Len(last.pre))

\* C15's case: an add_attack on the bucket of the middle entry of a pool of
\* three.
C15_Witness ==
    /\ last.op = "add_attack"
    /\ Len(last.pre) = 3
    /\ SameBucketAt(last.pre, last.attack) = {2}
    /\ pool # last.pre


(***************************************************************************)
(* The claim about ReducedShip::get_attacks, under SpecGetAttacks.         *)
(***************************************************************************)
\* C16: get_attacks returns one entry per entry of the representative's
\* profile, with the same smallest_target and damage_per_attack and with the
\* profile's parralel_attacks multiplied by the group's number, and leaves
\* the group and the profile as they were.
C16_ProfileScaledByNumber ==
    last.op = "get_attacks" =>
        /\ Len(last.ret) = Len(last.profile)
        /\ \A i \in 1..Len(last.ret) :
            /\ last.ret[i].smallest_target = last.profile[i].smallest_target
            /\ last.ret[i].attack.damage_per_attack =
                    last.profile[i].attack.damage_per_attack
            /\ last.ret[i].attack.parralel_attacks =
                    last.profile[i].attack.parralel_attacks * last.pre.number
        /\ group = last.pre
        /\ pool = last.profile

\* C16's case: a profile of two entries scaled by a group of MaxCount ships.
C16_Witness ==
    /\ last.op = "get_attacks"
    /\ Len(last.profile) = 2
    /\ last.pre.number = MaxCount
    /\ last.ret # last.profile


(***************************************************************************)
(* The claims about TemplateBuf, under SpecGets and SpecBuf.               *)
(***************************************************************************)
\* The names a TemplateBuf holds.
HeldNames(b) == { b.templates[i].name : i \in 1..Len(b.templates) }

\* A get that missed, loaded its template and found the cache full.
EvictingGet ==
    /\ last.op = "get"
    /\ last.miss
    /\ last.load.ok
    /\ ~last.panicked
    /\ Len(last.pre.templates) = last.pre.max_loaded

\* C17 (as claimed): when a get misses and the cache already holds max_loaded
\* templates, the entry removed is the one loaded earliest among those held,
\* and the newly loaded template is then held.
C17_EvictsEarliestLoaded ==
    EvictingGet =>
        /\ HeldNames(last.pre) \ HeldNames(buf) = {Head(last.pre.held)}
        /\ last.name \in HeldNames(buf)

\* C18 (as claimed): after any sequence of get, unload and set_max_loaded on
\* a TemplateBuf made by new(m), m >= 0, the templates held never exceed
\* max_loaded and no call indexes out of bounds.
C18_WithinMaxLoadedNoPanic ==
    /\ Len(buf.templates) <= buf.max_loaded
    /\ ~last.panicked

\* C19: a get that misses and whose load fails returns None and leaves the
\* cache with the same templates in the same order.
C19_FailedLoadKeepsCache ==
    (last.op = "get" /\ last.miss /\ ~last.load.ok) =>
        /\ last.ret = <<"None">>
        /\ ~last.panicked
        /\ buf.templates = last.pre.templates
        /\ buf.max_loaded = last.pre.max_loaded

\* C19's case: the load fails for a name a full cache of MaxLoaded templates
\* does not hold.
C19_Witness ==
    /\ last.op = "get"
    /\ last.miss
    /\ ~last.load.ok
    /\ Len(last.pre.templates) = MaxLoaded
    /\ last.pre.max_loaded = MaxLoaded


(***************************************************************************)
(* The claim about the weapon constructors, under SpecWeapons.             *)
(***************************************************************************)
\* Two weapons of the Vec share a target_size.
DuplicateTarget(weapons) ==
    \E i, j \in 1..Len(weapons) :
        i < j /\ weapons[i].target_size = weapons[j].target_size

\* A weapon of the Vec, at any position, does 0 damage or makes 0 attacks.
ZeroWeapon(weapons) ==
    \E i \in 1..Len(weapons) :
        weapons[i].damage_per_attack = 0 \/ weapons[i].simultainious_attacks = 0

\* C20 (as claimed): ReducedWeapon::new returns an error whenever two weapons
\* share a target_size or any weapon, at any position and also in a Vec of
\* one, has damage_per_attack = 0 or simultainious_attacks = 0, and Ok only
\* otherwise; DistinctWeapon::new rejects zero damage with DamageError,
\* checked first, and zero attacks with AttacksError.
C20_ConstructorsReject ==
    /\ last.op = "ReducedWeapon::new" =>
        /\ last.ret.ok <=> ~(DuplicateTarget(last.weapons) \/ ZeroWeapon(last.weapons))
        /\ ~last.ret.ok => last.ret.err \in {"TargetError", "DamageError", "AttacksError"}
    /\ last.op = "DistinctWeapon::new" =>
        IF last.weapon.damage_per_attack = 0
        THEN ~last.ret.ok /\ last.ret.err = "DamageError"
        ELSE IF last.weapon.simultainious_attacks = 0
        THEN ~last.ret.ok /\ last.ret.err = "AttacksError"
        ELSE last.ret.ok /\ last.ret.val = last.weapon


(***************************************************************************)
(* The claim about descriptors of no damage, under SpecDescriptors.        *)
(***************************************************************************)
\* C21 (as claimed): no descriptor with damage_per_attack = 0 becomes an
\* entry of a pool through new, add_attack or add_attacks, so resolve_attacks
\* never divides what is left over by a damage_per_attack of 0.
C21_NoZeroDamageInPool ==
    /\ \A i \in 1..Len(pool) : pool[i].attack.damage_per_attack # 0
    /\ ~last.panicked


(***************************************************************************)
(* The claim about ShipTemplate, under SpecTemplate.                       *)
(***************************************************************************)
\* The capacity relations of a template.
WellFormed(t) ==
    /\ t.fuel_use <= t.fuel_capacity
    /\ t.shield_recovery <= t.shield_capacity

\* C22 (as claimed): every ShipTemplate obtained through ShipTemplate::new,
\* the setters or the loading of a template record has fuel_use <=
\* fuel_capacity and shield_recovery <= shield_capacity; new returns FuelError
\* when fuel_use > fuel_capacity, otherwise ShieldError when shield_recovery >
\* shield_capacity; a failing setter leaves the template as it was.
C22_TemplateWellFormed ==
    /\ WellFormed(ship_template)
    /\ last.op = "new" =>
        IF last.fuel_use > last.fuel_capacity
        THEN ~last.ret.ok /\ last.ret.err = "FuelError"
        ELSE IF last.shield_recovery > last.shield_capacity
        THEN ~last.ret.ok /\ last.ret.err = "ShieldError"
        ELSE last.ret.ok
    /\ (last.op = "set" /\ last.ret # "Ok") => ship_template = last.pre


(***************************************************************************)
(* The claim about RepeatedShip::checked_merge, under SpecMerge.           *)
(***************************************************************************)
\* C23 (as claimed): checked_merge(other) with a template different from
\* self's returns Some(other) and leaves self's representative and counter as
\* they were; with the same template it returns None and self's counter
\* becomes the sum of both counters.
C23_CheckedMergeByTemplate ==
    last.op = "checked_merge" =>
        IF same_template(last.pre, last.other)
        THEN /\ ~last.panicked
             /\ last.ret = "None"
             /\ repeated.counter = last.pre.counter + last.other.counter
        ELSE /\ ~last.panicked
             /\ last.ret = "Some"
             /\ repeated = last.pre


(***************************************************************************)
(* The claim about Ship::regenerate_shields over the whole of UInt, under  *)
(* SpecShipOps.                                                            *)
(***************************************************************************)
\* C24 (as claimed): regenerate_shields sets shield_points to
\* min(shield_points + shield_recovery, shield_capacity) for every UInt value
\* of the three, and leaves hull, fuel and template as they were.
C24_RegenerateClampsForEveryUInt ==
    (last.op = "regenerate_shields" /\ group = NoGroup) =>
        /\ ship.shield_points =
                Min(last.pre.shield_points + last.pre.template.shield_recovery,
                    last.pre.template.shield_capacity)
        /\ ship.hull_points = last.pre.hull_points
        /\ ship.fuel_units = last.pre.fuel_units
        /\ ship.template = last.pre.template


(***************************************************************************)
(* The claim about ShipGroup::new and add_ships, under SpecGroup.          *)
(***************************************************************************)
\* C25: after ShipGroup::new(ships) and any later add_ships the group holds
\* no RepeatedShip of counter 0 and no two RepeatedShips of one template, and
\* its counters sum to the counters of all the ships handed in.
C25_GroupCanonical ==
    last.op \in {"new", "add_ships"} =>
        /\ ~last.panicked
        /\ \A i \in 1..Len(fleet[1]) : fleet[1][i].counter # 0
        /\ \A i, j \in 1..Len(fleet[1]) :
                i # j => ~same_template(fleet[1][i], fleet[1][j])
        /\ CounterSum(fleet[1]) = last.total

\* C25's case: add_ships merges MaxCount ships into one of the two
\* RepeatedShips of a group, which then stands for 3 * MaxCount ships.
C25_Witness ==
    /\ last.op = "add_ships"
    /\ Len(last.pre) = 2
    /\ Len(fleet[1]) = 2
    /\ last.ships.counter = MaxCount
    /\ last.total = 3 * MaxCount


(***************************************************************************)
(* Further claims about ReducedShip::resolve_damage, under Spec.           *)
(***************************************************************************)
\* A resolve_damage on a group of at least one ship whose representative has
\* hull left.
LiveGroupCall ==
    /\ last.op = "resolve_damage"
    /\ last.pre.number >= 1
    /\ last.pre.average_ship.hull_points >= 1

\* The damage the whole group can take: n x (h + s).
GroupHealthBefore ==
    last.pre.number
        * (last.pre.average_ship.hull_points + last.pre.average_ship.shield_points)

\* C26 (as claimed): for a group of n >= 1 ships of hull h >= 1 and shield s,
\* resolve_damage(d) returns max(0, d - n x (h + s)), and the count afterwards
\* is 0 if and only if d >= n x (h + s).
C26_LeftoverIsOverkill ==
    LiveGroupCall =>
        /\ last.ret = Max(0, last.damage - GroupHealthBefore)
        /\ group.number = 0 <=> last.damage >= GroupHealthBefore


\* C26's case: a group of several shielded ships is dealt more than all of
\* them can take.
C26_Witness ==
    /\ LiveGroupCall
    /\ last.pre.number > 1
    /\ last.pre.average_ship.shield_points > 0
    /\ last.damage > GroupHealthBefore
    /\ last.ret > 0
    /\ group.number = 0


\* C27: for a ReducedShip made with count >= 1 and representative hull >= 1,
\* after any sequence of resolve_damage, resolve_attacks and
\* regenerate_shields a count above 0 implies a representative hull of at
\* least 1, and the representative's hull never rises.  Under SpecLive.
C27_LiveGroupLiveRepresentative ==
    /\ [](group.number > 0 => group.average_ship.hull_points >= 1)
    /\ [][group'.average_ship.hull_points <= group.average_ship.hull_points]_vars

\* C27's case: a resolve_damage killed some ships of the group and lowered
\* the representative's hull, and ships are left.
C27_Witness ==
    /\ last.op = "resolve_damage"
    /\ group.number > 0
    /\ group.number < last.pre.number
    /\ group.average_ship.hull_points < last.pre.average_ship.hull_points


(***************************************************************************)
(* The claim about building a pool at once and entry by entry, under       *)
(* SpecAttacks.                                                            *)
(***************************************************************************)
\* C28 (as claimed): for every list L of descriptors, ReducedAttacks::new(L)
\* is the pool got from the empty pool by add_attack of each entry of L, in
\* any order.
C28_NewAgreesWithAddAttack ==
    last.op = "new" =>
        \A l \in Reorderings(last.attacks) :
            add_attacks(ReducedAttacks_new(<< >>), l) = pool

(***************************************************************************)
(* The claim about what resolve_attacks leaves of the pool, under          *)
(* SpecShipOps.                                                            *)
(***************************************************************************)
\* The position of the pool entry on which a live Ship dies, 0 when it
\* survives the pool.
RECURSIVE ShipDiedAt(_, _, _)
ShipDiedAt(target, attacks, i) ==
    IF i > Len(attacks) THEN 0
    ELSE IF attacks[i].smallest_target <= target.template.ship_size_class
    THEN LET after == Ship_resolve_damage(target,
                        attacks[i].attack.parralel_attacks
                            * attacks[i].attack.damage_per_attack).self
         IN  IF after.hull_points = 0 THEN i
             ELSE ShipDiedAt(after, attacks, i + 1)
    ELSE ShipDiedAt(target, attacks, i + 1)

\* The same of a live ReducedShip, which is dead when its count is 0.
RECURSIVE ReducedShipDiedAt(_, _, _)
ReducedShipDiedAt(target, attacks, i) ==
    IF i > Len(attacks) THEN 0
    ELSE IF attacks[i].smallest_target <= target.average_ship.template.ship_size_class
    THEN LET after == ReducedShip_resolve_damage(target,
                        attacks[i].attack.parralel_attacks
                            * attacks[i].attack.damage_per_attack).self
         IN  IF after.number = 0 THEN i
             ELSE ReducedShipDiedAt(after, attacks, i + 1)
    ELSE ReducedShipDiedAt(target, attacks, i + 1)

\* What a resolve_attacks may do to a pool: `before` and `after` are the pool
\* around the call, `size` the target's size class, `dead` whether the target
\* was dead before the call, `died_at` the position of the entry on which it
\* died (0 when it did not).
PoolFrame(before, after, size, dead, died_at) ==
    /\ Len(after) = Len(before)
    /\ \A i \in 1..Len(before) :
        /\ after[i].smallest_target = before[i].smallest_target
        /\ after[i].attack.damage_per_attack = before[i].attack.damage_per_attack
        /\ after[i].attack.parralel_attacks <= before[i].attack.parralel_attacks
        /\ before[i].smallest_target > size => after[i] = before[i]
        /\ (died_at # 0 /\ i > died_at) => after[i] = before[i]
    /\ dead => after = before

\* C29: resolve_attacks of a Ship or a ReducedShip never changes the number
\* or the order of the pool entries nor any entry's smallest_target or
\* damage_per_attack, never increases an entry's parralel_attacks, leaves
\* unchanged every entry whose smallest_target exceeds the target's size
\* class and every entry after the one on which the target died; a target
\* that is already dead leaves the whole pool unchanged.
C29_PoolFrame ==
    (last.op = "resolve_attacks" /\ ~last.panicked) =>
        IF group = NoGroup
        THEN PoolFrame(last.attacks, last.left,
                       last.pre.template.ship_size_class,
                       last.pre.hull_points = 0,
                       IF last.pre.hull_points = 0 THEN 0
                       ELSE ShipDiedAt(last.pre, last.attacks, 1))
        ELSE PoolFrame(last.attacks, last.left,
                       last.pre.average_ship.template.ship_size_class,
                       last.pre.number = 0,
                       IF last.pre.number = 0 THEN 0
                       ELSE ReducedShipDiedAt(last.pre, last.attacks, 1))

\* C29's case: a live Ship is attacked with a pool of two entries that can
\* both target it; it dies on the first, which keeps fewer attacks than it
\* had, and the second is left as it was.
C29_Witness ==
    /\ group = NoGroup
    /\ last.op = "resolve_attacks"
    /\ ~last.panicked
    /\ last.pre.hull_points # 0
    /\ Len(last.attacks) = 2
    /\ \A i \in 1..2 :
        last.attacks[i].smallest_target <= last.pre.template.ship_size_class
    /\ ShipDiedAt(last.pre, last.attacks, 1) = 1
    /\ last.left[1].attack.parralel_attacks < last.attacks[1].attack.parralel_attacks
    /\ last.left[1].attack.parralel_attacks > 0
    /\ last.left[2] = last.attacks[2]

(***************************************************************************)
(* The claim about a ReducedShip of one ship against that Ship, under      *)
(* Spec.                                                                   *)
(***************************************************************************)
\* The last call was resolve_damage on a ReducedShip with count 1.
SingleShipCall == last.op = "resolve_damage" /\ last.pre.number = 1

\* What Ship::resolve_damage makes of the ship that group represented.
SingleShipAfter == Ship_resolve_damage(last.pre.average_ship, last.damage)

=============================================================================
